---- MODULE Spec2Model ----
(***************************************************************************)
(* Model of ctx (Lewenhaupt/ctx): the fragment parser, merger, tag filter  *)
(* and splicer of internal/parser.                                         *)
(*                                                                         *)
(* Text is modelled as a sequence of one-character strings, so that        *)
(* trimming, splitting, joining and line scanning are computed rather than *)
(* assumed.  A path is the sequence of its components.                     *)
(***************************************************************************)
EXTENDS Integers, Sequences, FiniteSets, TLC

VARIABLES
    area,             \* which operation this behaviour exercises
    pc,               \* position inside the operation
    globalFragments,  \* CombineFragments: argument
    localFragments,   \* CombineFragments: argument
    noLocalOverride,  \* CombineFragments: argument
    combined,         \* CombineFragments: return value
    fragments,        \* FilterFragmentsByTags, SpliceFragments: argument
    selectedTags,     \* FilterFragmentsByTags: argument
    filtered,         \* FilterFragmentsByTags: return value
    refiltered,       \* FilterFragmentsByTags applied to its own result
    result,           \* SpliceFragments: the returned string
    fileText,         \* ParseFragment: the bytes of the file at filePath
    rest,             \* ParseFragment: what the scanner has not read yet
    tags,             \* ParseFragment: local
    contentLines,     \* ParseFragment: local
    inFrontmatter,    \* ParseFragment: local
    frontmatterProcessed, \* ParseFragment: local
    parsed,           \* ParseFragment: the returned fragment, or the error
    opts,             \* RunBuild: argument (BuildOptions)
    cfg,              \* RunBuild: the loaded configuration
    filteredFragments,     \* RunBuild: local
    selectedOutputFormats, \* RunBuild: local
    outputFiles,      \* RunBuild: local
    output,           \* RunBuild: local, the spliced document
    fs,               \* the files and directories on disk
    stdout,           \* what has been printed to standard output
    prompts,          \* the interactive forms run so far, with their outcomes
    err,              \* RunBuild, ScanFragments, RunInit: the returned error
    tree,             \* ScanFragments: the directory fragmentsDir as the walk finds it
    walked,           \* ScanFragments: how many calls of the walk function were made
    answers           \* RunInit: the answers of the questionnaire

combineVars == <<globalFragments, localFragments, noLocalOverride, combined>>
filterVars  == <<fragments, selectedTags, filtered, refiltered>>
spliceVars  == <<result>>
parseVars   == <<fileText, rest, tags, contentLines, inFrontmatter,
                 frontmatterProcessed, parsed>>

buildVars   == <<opts, cfg, filteredFragments, selectedOutputFormats, outputFiles,
                 output, fs, stdout, prompts, err>>

scanVars    == <<tree, walked>>
initVars    == <<answers>>

vars == <<area, pc, combineVars, filterVars, spliceVars, parseVars, buildVars,
          scanVars, initVars>>

----------------------------------------------------------------------------
(* Bounds *)

\* longest fragment slice handed to CombineFragments, FilterFragmentsByTags
\* and SpliceFragments
MaxFrags == 2

----------------------------------------------------------------------------
(* Generic helpers *)

\* all sequences over S of length at most n
SeqsUpTo(S, n) == UNION {[1..k -> S] : k \in 0..n}

\* number of positions of s holding x
Count(s, x) == Cardinality({i \in DOMAIN s : s[i] = x})

\* a sequence without repeated Path
DistinctPaths(s) == \A i, j \in DOMAIN s : s[i].Path = s[j].Path => i = j

----------------------------------------------------------------------------
(* Fragment (fragment.go, type Fragment) *)

Fragment(path, tagList, content) ==
    [Path |-> path, Tags |-> tagList, Content |-> content]

\* filepath.Base on a cleaned, non-empty path: its last component
Base(path) == path[Len(path)]

----------------------------------------------------------------------------
(* CombineFragments *)

\* variant: the override map keyed by the name of the containing directory
\* instead of the filename
LocalByFilename_ByDir(localFrs) ==
    LET Parent(path) == path[Len(path) - 1]
    IN  [k \in {Parent(localFrs[i].Path) : i \in DOMAIN localFrs} |->
            localFrs[CHOOSE i \in DOMAIN localFrs : Parent(localFrs[i].Path) = k]]

\* localByFilename after the first loop: a Go map, later entries replace
\* earlier ones with the same key
RECURSIVE LocalByFilename(_)
LocalByFilename(localFrs) ==
    IF localFrs = <<>> THEN <<>>
    ELSE LET n    == Len(localFrs)
             prev == LocalByFilename(SubSeq(localFrs, 1, n - 1))
             key  == Base(localFrs[n].Path)
         IN  [k \in (DOMAIN prev) \cup {key} |->
                 IF k = key THEN localFrs[n] ELSE prev[k]]

\* the second loop: append the global fragments that have no local override
RECURSIVE AppendNotOverridden(_, _, _)
AppendNotOverridden(acc, globalFrs, byFilename) ==
    IF globalFrs = <<>> THEN acc
    ELSE LET fragment == Head(globalFrs)
             filename == Base(fragment.Path)
         IN  AppendNotOverridden(
                 IF filename \notin DOMAIN byFilename
                 THEN Append(acc, fragment) ELSE acc,
                 Tail(globalFrs), byFilename)

\* variant: the local fragments first in the noLocalOverride branch
CombineBoth_LocalFirst(globalFrs, localFrs) == (<<>> \o localFrs) \o globalFrs

\* the noLocalOverride branch: append(append(combined, global...), local...)
CombineBoth(globalFrs, localFrs) == (<<>> \o globalFrs) \o localFrs

\* variant: the surviving global fragments placed before the local ones
CombineOverride_GlobalFirst(globalFrs, localFrs) ==
    AppendNotOverridden(<<>>, globalFrs, LocalByFilename(localFrs)) \o localFrs

\* the default branch: the local fragments, then the second loop
CombineOverride(globalFrs, localFrs) ==
    AppendNotOverridden(<<>> \o localFrs, globalFrs, LocalByFilename(localFrs))

\* variant: the flag ignored, the override applied in both modes
CombineFragments_AlwaysOverride(globalFrs, localFrs, noOverride) ==
    CombineOverride(globalFrs, localFrs)

\* CombineFragments keeping both copies whatever the flag is
CombineFragments_NeverOverride(globalFrs, localFrs, noOverride) ==
    CombineBoth(globalFrs, localFrs)

CombineFragments(globalFrs, localFrs, noOverride) ==
    IF noOverride
    THEN CombineBoth(globalFrs, localFrs)
    ELSE CombineOverride(globalFrs, localFrs)

----------------------------------------------------------------------------
(* Inputs of the merger *)

GlobalPaths == {<<"g", "a.md">>, <<"g", "sub", "a.md">>, <<"g", "c.md">>}
LocalPaths  == {<<"l", "a.md">>, <<"l", "sub", "a.md">>, <<"l", "b.md">>}

\* the (tags, content) a file may carry
Bodies ==
    { [Tags |-> <<"common">>,          Content |-> <<"X">>],
      [Tags |-> <<"other", "common">>, Content |-> <<"Y", "\n">>] }

FragmentsAt(paths) == {Fragment(p, b.Tags, b.Content) : p \in paths, b \in Bodies}

\* what a scan can return: no path twice
ScanResults(paths) == {s \in SeqsUpTo(FragmentsAt(paths), MaxFrags) : DistinctPaths(s)}

\* the variables of an operation that a behaviour does not exercise
IdleCombine ==
    /\ globalFragments = <<>>
    /\ localFragments = <<>>
    /\ noLocalOverride = FALSE
    /\ combined = <<>>

IdleFilter ==
    /\ fragments = <<>>
    /\ selectedTags = <<>>
    /\ filtered = <<>>
    /\ refiltered = <<>>

IdleSplice == result = <<>>

IdleParse ==
    /\ fileText = <<>>
    /\ rest = <<>>
    /\ tags = <<>>
    /\ contentLines = <<>>
    /\ inFrontmatter = FALSE
    /\ frontmatterProcessed = FALSE
    /\ parsed = [err |-> "none"]

\* BuildOptions as the command line leaves it without flags (part_000:37-46)
NoOptions ==
    [Tags |-> <<>>, NonInteractive |-> FALSE, OutputFormats |-> <<>>,
     OutputFile |-> <<>>, Stdout |-> FALSE]

\* a configuration without default tags and without output formats
EmptyConfig == [DefaultTags |-> <<>>, OutputFormats |-> <<>>]

\* a disk without files and directories
EmptyDisk == [files |-> <<>>, dirs |-> {}]

IdleBuild ==
    /\ opts = NoOptions
    /\ cfg = EmptyConfig
    /\ filteredFragments = <<>>
    /\ selectedOutputFormats = <<>>
    /\ outputFiles = <<>>
    /\ output = <<>>
    /\ fs = EmptyDisk
    /\ stdout = <<>>
    /\ prompts = <<>>
    /\ err = [msg |-> "nil", arg |-> <<>>]

\* a fragments directory that is there and empty
EmptyTree == [stat |-> "ok", entries |-> <<>>]

IdleScan == tree = EmptyTree /\ walked = 0

\* InitAnswers before the questionnaire (init.go:104)
NoAnswers == [AddOutputFormats |-> FALSE, FragmentsDir |-> <<>>, CreateSample |-> FALSE]

IdleInit == answers = NoAnswers

InitCombine ==
    /\ area = "combine"
    /\ pc = "start"
    /\ globalFragments \in ScanResults(GlobalPaths)
    /\ localFragments \in ScanResults(LocalPaths)
    /\ noLocalOverride \in BOOLEAN
    /\ combined = <<>>
    /\ IdleFilter
    /\ IdleSplice
    /\ IdleParse
    /\ IdleBuild
    /\ IdleScan
    /\ IdleInit

Combine ==
    /\ area = "combine"
    /\ pc = "start"
    /\ combined' = CombineFragments(globalFragments, localFragments, noLocalOverride)
    /\ pc' = "done"
    /\ UNCHANGED <<area, globalFragments, localFragments, noLocalOverride>>
    /\ UNCHANGED <<filterVars, spliceVars, parseVars, buildVars, scanVars, initVars>>

SpecCombine == InitCombine /\ [][Combine]_vars

(* Properties of the merger *)

Basenames(frs) == {Base(frs[i].Path) : i \in DOMAIN frs}

CombineDone(flag) == area = "combine" /\ pc = "done" /\ noLocalOverride = flag

\* C1 as stated: in override mode, for every basename found in both the
\* global and the local fragments (also when several local fragments have
\* it), the result holds only local content for that basename, and holds the
\* fragment of that basename exactly once.
C1_OncePerBasename_Original ==
    CombineDone(FALSE) =>
        \A b \in Basenames(globalFragments) \cap Basenames(localFragments) :
            /\ \A i \in DOMAIN combined :
                   Base(combined[i].Path) = b =>
                       \E j \in DOMAIN localFragments : combined[i] = localFragments[j]
            /\ Cardinality({i \in DOMAIN combined : Base(combined[i].Path) = b}) = 1

\* C1 amended: in override mode, for every basename found in both the global
\* and the local fragments, every fragment of the result with that basename is
\* a local one, no global fragment with that basename is in the result, and
\* each local fragment with that basename is in the result exactly once: the
\* basename occurs in the result as often as among the local fragments.
C1_LocalReplacesGlobal ==
    CombineDone(FALSE) =>
        \A b \in Basenames(globalFragments) \cap Basenames(localFragments) :
            /\ \A i \in DOMAIN combined :
                   Base(combined[i].Path) = b =>
                       \E j \in DOMAIN localFragments : combined[i] = localFragments[j]
            /\ \A i \in DOMAIN globalFragments :
                   Base(globalFragments[i].Path) = b =>
                       Count(combined, globalFragments[i]) = 0
            /\ \A j \in DOMAIN localFragments :
                   Base(localFragments[j].Path) = b =>
                       Count(combined, localFragments[j]) = 1
            /\ Cardinality({i \in DOMAIN combined : Base(combined[i].Path) = b})
                   = Cardinality({j \in DOMAIN localFragments :
                                     Base(localFragments[j].Path) = b})

\* a basename held by two local fragments and a global one, bodies differing
C1_Witness ==
    /\ CombineDone(FALSE)
    /\ \E i, j \in DOMAIN localFragments, k \in DOMAIN globalFragments :
          /\ i # j
          /\ Base(localFragments[i].Path) = Base(localFragments[j].Path)
          /\ Base(globalFragments[k].Path) = Base(localFragments[i].Path)
          /\ globalFragments[k].Content # localFragments[i].Content
    /\ Len(combined) = Len(localFragments)

\* C2: in override mode the result is the local sequence followed by the
\* global fragments, in their order, whose basename no local fragment has.
C2_LocalThenUnmatchedGlobal ==
    CombineDone(FALSE) =>
        LET Unmatched(g) == \A j \in DOMAIN localFragments :
                                Base(localFragments[j].Path) # Base(g.Path)
        IN  /\ combined = localFragments \o SelectSeq(globalFragments, Unmatched)
            /\ globalFragments = <<>> => combined = localFragments
            /\ localFragments = <<>> => combined = globalFragments

\* some global fragment is dropped, another is kept, after a local one
C2_Witness ==
    /\ CombineDone(FALSE)
    /\ localFragments # <<>>
    /\ Len(combined) > Len(localFragments)
    /\ Len(combined) < Len(localFragments) + Len(globalFragments)

\* C3 as stated: with noLocalOverride the result is the local sequence
\* followed by the global sequence.
C3_LocalThenGlobal_Original ==
    CombineDone(TRUE) => combined = localFragments \o globalFragments

\* C3 amended: with noLocalOverride the result is the global sequence followed
\* by the local sequence, element for element.
C3_GlobalThenLocal ==
    CombineDone(TRUE) =>
        /\ Len(combined) = Len(globalFragments) + Len(localFragments)
        /\ \A i \in DOMAIN globalFragments : combined[i] = globalFragments[i]
        /\ \A j \in DOMAIN localFragments :
               combined[Len(globalFragments) + j] = localFragments[j]

C3_Witness ==
    /\ CombineDone(TRUE)
    /\ globalFragments # <<>>
    /\ localFragments # <<>>
    /\ Basenames(globalFragments) \cap Basenames(localFragments) # {}

\* C4: with noLocalOverride every global and every local fragment is in the
\* result exactly once (same-named copies both kept) and the result has
\* len(G) + len(L) fragments.
C4_BothKeptOnce ==
    CombineDone(TRUE) =>
        /\ Len(combined) = Len(globalFragments) + Len(localFragments)
        /\ \A i \in DOMAIN globalFragments : Count(combined, globalFragments[i]) = 1
        /\ \A j \in DOMAIN localFragments : Count(combined, localFragments[j]) = 1
        /\ \A i \in DOMAIN combined :
               \/ \E k \in DOMAIN globalFragments : combined[i] = globalFragments[k]
               \/ \E k \in DOMAIN localFragments : combined[i] = localFragments[k]

\* a global and a local fragment with the same filename, both in the result
C4_Witness ==
    /\ CombineDone(TRUE)
    /\ \E i, j \in DOMAIN combined :
          /\ i # j
          /\ Base(combined[i].Path) = Base(combined[j].Path)
          /\ combined[i].Path[1] = "g"
          /\ combined[j].Path[1] = "l"

----------------------------------------------------------------------------
(* FilterFragmentsByTags *)

\* tagSet after the first loop: the keys mapped to true (a missing key reads
\* as false)
TagSet(selTags) == {selTags[i] : i \in DOMAIN selTags}

\* variant: the inner loop without its break, one append per matching tag
EmitFragment_NoBreak(acc, fragment, frTags, tagSet) ==
    acc \o [k \in 1..Cardinality({i \in DOMAIN frTags : frTags[i] \in tagSet}) |-> fragment]

\* variant: the inner loop left after the first tag whether it matched or not
EmitFragment_FirstTagOnly(acc, fragment, frTags, tagSet) ==
    IF frTags # <<>> /\ Head(frTags) \in tagSet THEN Append(acc, fragment) ELSE acc

\* the inner loop over fragment.Tags: append once and break at the first tag
\* found in tagSet
RECURSIVE EmitFragment(_, _, _, _)
EmitFragment(acc, fragment, frTags, tagSet) ==
    IF frTags = <<>> THEN acc
    ELSE IF Head(frTags) \in tagSet THEN Append(acc, fragment)
    ELSE EmitFragment(acc, fragment, Tail(frTags), tagSet)

\* the outer loop over fragments
RECURSIVE FilterLoop(_, _, _)
FilterLoop(acc, frs, tagSet) ==
    IF frs = <<>> THEN acc
    ELSE FilterLoop(EmitFragment(acc, Head(frs), Head(frs).Tags, tagSet),
                    Tail(frs), tagSet)

\* variant: no early return for an empty selection
FilterFragmentsByTags_NoEarlyReturn(frs, selTags) ==
    FilterLoop(<<>>, frs, TagSet(selTags))

FilterFragmentsByTags(frs, selTags) ==
    IF Len(selTags) = 0 THEN frs
    ELSE FilterLoop(<<>>, frs, TagSet(selTags))

(* Inputs of the filter *)

FilterTagNames == {"a", "b"}

\* longest tag list of a fragment and longest tag selection
MaxTags == 2

FilterPaths == {<<"g", "a.md">>}

FilterFragments ==
    {Fragment(p, t, <<"X">>) : p \in FilterPaths, t \in SeqsUpTo(FilterTagNames, MaxTags)}

InitFilter ==
    /\ area = "filter"
    /\ pc = "start"
    /\ fragments \in SeqsUpTo(FilterFragments, MaxFrags)
    /\ selectedTags \in SeqsUpTo(FilterTagNames, MaxTags)
    /\ filtered = <<>>
    /\ refiltered = <<>>
    /\ IdleCombine
    /\ IdleSplice
    /\ IdleParse
    /\ IdleBuild
    /\ IdleScan
    /\ IdleInit

\* filtered := FilterFragmentsByTags(fragments, selectedTags)
FilterOnce ==
    /\ area = "filter"
    /\ pc = "start"
    /\ filtered' = FilterFragmentsByTags(fragments, selectedTags)
    /\ pc' = "once"
    /\ UNCHANGED <<area, fragments, selectedTags, refiltered, combineVars, spliceVars, parseVars, buildVars,
                 scanVars, initVars>>

\* refiltered := FilterFragmentsByTags(filtered, selectedTags)
FilterAgain ==
    /\ area = "filter"
    /\ pc = "once"
    /\ refiltered' = FilterFragmentsByTags(filtered, selectedTags)
    /\ pc' = "done"
    /\ UNCHANGED <<area, fragments, selectedTags, filtered, combineVars, spliceVars, parseVars, buildVars,
                 scanVars, initVars>>

SpecFilter == InitFilter /\ [][FilterOnce \/ FilterAgain]_vars

(* Properties of the filter *)

Filtered == area = "filter" /\ pc \in {"once", "done"}

\* C5: with an empty selection the filter returns its input unchanged: the
\* same fragments in the same order, untagged fragments included.
C5_EmptySelectionIdentity ==
    (Filtered /\ selectedTags = <<>>) => filtered = fragments

C5_Witness ==
    /\ Filtered
    /\ selectedTags = <<>>
    /\ Len(filtered) >= 2
    /\ \E i, j \in DOMAIN filtered : filtered[i].Tags = <<>> /\ filtered[j].Tags # <<>>

\* C6: filtering the result of a filter again with the same selection changes
\* nothing, for an empty and for a non-empty selection.
C6_Idempotent ==
    (area = "filter" /\ pc = "done") => refiltered = filtered

\* a non-empty selection that drops one fragment and keeps one with two
\* matching tags
C6_Witness ==
    /\ area = "filter" /\ pc = "done"
    /\ selectedTags # <<>>
    /\ refiltered # <<>>
    /\ Len(refiltered) < Len(fragments)
    /\ \E i \in DOMAIN refiltered :
          Cardinality({k \in DOMAIN refiltered[i].Tags :
                          refiltered[i].Tags[k] \in TagSet(selectedTags)}) = 2

\* C7: with a non-empty selection the result is the subsequence of the input,
\* in input order, of the fragments having a tag in the selection: once per
\* occurrence in the input, never a fragment without tags.
C7_SubsequenceOfMatching ==
    (Filtered /\ selectedTags # <<>>) =>
        LET Shares(f) == \E i \in DOMAIN f.Tags, j \in DOMAIN selectedTags :
                             f.Tags[i] = selectedTags[j]
        IN  /\ filtered = SelectSeq(fragments, Shares)
            /\ \A i \in DOMAIN filtered : filtered[i].Tags # <<>>
            /\ \A f \in FilterFragments :
                   Count(filtered, f) = IF Shares(f) THEN Count(fragments, f) ELSE 0

\* an untagged fragment dropped, and a fragment matching on a duplicated tag
\* emitted once
C7_Witness ==
    /\ Filtered
    /\ selectedTags # <<>>
    /\ Len(fragments) = 2
    /\ fragments[1].Tags = <<>>
    /\ fragments[2].Tags = <<"a", "a">>
    /\ filtered = <<fragments[2]>>

----------------------------------------------------------------------------
(* SpliceFragments *)

\* the string written between two fragments
Separator == <<"\n", "\n">>

\* variant: the separator written after every fragment, the last one included
RECURSIVE SpliceLoop_SeparatorAfter(_, _, _)
SpliceLoop_SeparatorAfter(builder, frs, i) ==
    IF i > Len(frs) THEN builder
    ELSE SpliceLoop_SeparatorAfter((builder \o frs[i].Content) \o Separator, frs, i + 1)

\* the loop over fragments from the i-th on (1-based: Go's i > 0 is i > 1)
RECURSIVE SpliceLoop(_, _, _)
SpliceLoop(builder, frs, i) ==
    IF i > Len(frs) THEN builder
    ELSE SpliceLoop((IF i > 1 THEN builder \o Separator ELSE builder) \o frs[i].Content,
                    frs, i + 1)

SpliceFragments(frs) ==
    IF Len(frs) = 0 THEN <<>>
    ELSE SpliceLoop(<<>>, frs, 1)

(* Inputs of the splicer *)

\* bodies: empty, plain, ending in a newline, and holding the separator itself
SpliceContents ==
    { <<>>, <<"a">>, <<"b", "\n">>, <<"\n", "\n">>, <<"\n", "c">>,
      <<"a", "\n", "\n", "c">> }

SplicePaths == {<<"g", "a.md">>, <<"l", "a.md">>}

SpliceInputs == {Fragment(p, <<>>, c) : p \in SplicePaths, c \in SpliceContents}

InitSplice ==
    /\ area = "splice"
    /\ pc = "start"
    /\ fragments \in SeqsUpTo(SpliceInputs, MaxFrags)
    /\ selectedTags = <<>>
    /\ filtered = <<>>
    /\ refiltered = <<>>
    /\ result = <<>>
    /\ IdleCombine
    /\ IdleParse
    /\ IdleBuild
    /\ IdleScan
    /\ IdleInit

Splice ==
    /\ area = "splice"
    /\ pc = "start"
    /\ result' = SpliceFragments(fragments)
    /\ pc' = "done"
    /\ UNCHANGED <<area, combineVars, filterVars, parseVars, buildVars, scanVars, initVars>>

SpecSplice == InitSplice /\ [][Splice]_vars

(* Properties of the splicer *)

\* total length of the contents of the first k fragments
RECURSIVE ContentLen(_, _)
ContentLen(frs, k) == IF k = 0 THEN 0 ELSE ContentLen(frs, k - 1) + Len(frs[k].Content)

\* C8: the spliced string is empty for no fragments; otherwise it holds the
\* contents in input order, the k-th content preceded by k-1 contents and k-1
\* two-newline separators, a separator after every content but the last, and
\* nothing else: n fragments give n-1 separators.
C8_JoinedBySeparator ==
    (area = "splice" /\ pc = "done") =>
        LET n        == Len(fragments)
            Start(k) == ContentLen(fragments, k - 1) + 2 * (k - 1)
            End(k)   == Start(k) + Len(fragments[k].Content)
        IN  /\ n = 0 => result = <<>>
            /\ n > 0 => Len(result) = ContentLen(fragments, n) + 2 * (n - 1)
            /\ \A k \in 1..n :
                   SubSeq(result, Start(k) + 1, End(k)) = fragments[k].Content
            /\ \A k \in 1..(n - 1) :
                   SubSeq(result, End(k) + 1, End(k) + 2) = <<"\n", "\n">>

\* two equal fragments spliced: both kept, one separator
C8_Witness ==
    /\ area = "splice" /\ pc = "done"
    /\ Len(fragments) = 2
    /\ fragments[1] = fragments[2]
    /\ fragments[1].Content = <<"b", "\n">>
    /\ result = <<"b", "\n", "\n", "\n", "b", "\n">>

----------------------------------------------------------------------------
(* ParseFragment: the text helpers it calls *)

\* unicode.IsSpace on the characters of the model
IsSpace(c) == c \in {" ", "\t", "\r", "\n"}

\* strings.TrimSpace
TrimSpace(s) ==
    LET keep == {i \in DOMAIN s : ~IsSpace(s[i])}
    IN  IF keep = {} THEN <<>>
        ELSE SubSeq(s, CHOOSE i \in keep : \A j \in keep : i <= j,
                       CHOOSE i \in keep : \A j \in keep : i >= j)

\* position of the first occurrence of character c in s, 0 when there is none
IndexByte(s, c) ==
    IF \E i \in DOMAIN s : s[i] = c
    THEN CHOOSE i \in DOMAIN s : s[i] = c /\ \A j \in 1..(i - 1) : s[j] # c
    ELSE 0

\* bufio.dropCR: one trailing carriage return removed
DropCR(data) ==
    IF Len(data) > 0 /\ data[Len(data)] = "\r"
    THEN SubSeq(data, 1, Len(data) - 1) ELSE data

\* bufio.ScanLines on the unread data at end of input: the next token ...
ScanLinesToken(data) ==
    LET i == IndexByte(data, "\n")
    IN  IF i > 0 THEN DropCR(SubSeq(data, 1, i - 1)) ELSE DropCR(data)

\* ... and the data left after it
ScanLinesRest(data) ==
    LET i == IndexByte(data, "\n")
    IN  IF i > 0 THEN SubSeq(data, i + 1, Len(data)) ELSE <<>>

\* strings.Split(s, ",")
RECURSIVE Split(_)
Split(s) ==
    LET i == IndexByte(s, ",")
    IN  IF i = 0 THEN <<s>>
        ELSE <<SubSeq(s, 1, i - 1)>> \o Split(SubSeq(s, i + 1, Len(s)))

\* variant: the separator written after every element
RECURSIVE Join_Terminated(_, _)
Join_Terminated(elems, sep) ==
    IF elems = <<>> THEN <<>>
    ELSE (Head(elems) \o sep) \o Join_Terminated(Tail(elems), sep)

\* strings.Join(elems, sep)
RECURSIVE Join(_, _)
Join(elems, sep) ==
    IF elems = <<>> THEN <<>>
    ELSE IF Len(elems) = 1 THEN elems[1]
    ELSE (Head(elems) \o sep) \o Join(Tail(elems), sep)

\* the frontmatter boundary the trimmed line is compared with
Boundary == <<"-", "-", "-">>

\* the literal prefix of ctxTagsRegex
CtxTagsKey == <<"c", "t", "x", "-", "t", "a", "g", "s", ":">>

\* the characters \s matches
IsRegexSpace(c) == c \in {" ", "\t", "\r", "\n"}

\* ctxTagsRegex.FindStringSubmatch(line) # nil, for ^ctx-tags:\s*(.+)$
CtxTagsMatches(line) ==
    /\ Len(line) > Len(CtxTagsKey)
    /\ SubSeq(line, 1, Len(CtxTagsKey)) = CtxTagsKey

\* matches[1]: \s* takes the leading white space but leaves (.+) a character
CtxTagsGroup(line) ==
    LET after  == SubSeq(line, Len(CtxTagsKey) + 1, Len(line))
        blanks == IF \A i \in DOMAIN after : IsRegexSpace(after[i])
                  THEN Len(after) - 1
                  ELSE (CHOOSE i \in DOMAIN after :
                            /\ ~IsRegexSpace(after[i])
                            /\ \A j \in 1..(i - 1) : IsRegexSpace(after[j])) - 1
    IN  SubSeq(after, blanks + 1, Len(after))

\* variant: empty tokens kept as tags
RECURSIVE AppendTags_KeepEmpty(_, _)
AppendTags_KeepEmpty(tagList, tokens) ==
    IF tokens = <<>> THEN tagList
    ELSE AppendTags_KeepEmpty(Append(tagList, TrimSpace(Head(tokens))), Tail(tokens))

\* the loop over strings.Split(tagsStr, ","): trim, append when not empty
RECURSIVE AppendTags(_, _)
AppendTags(tagList, tokens) ==
    IF tokens = <<>> THEN tagList
    ELSE LET tag == TrimSpace(Head(tokens))
         IN  AppendTags(IF tag # <<>> THEN Append(tagList, tag) ELSE tagList,
                        Tail(tokens))

\* a boundary line toggling the frontmatter even after it was closed
TogglesFrontmatter_Always(line, processed) == TrimSpace(line) = Boundary

\* the line is a frontmatter boundary and the frontmatter was not closed yet
TogglesFrontmatter(line, processed) == TrimSpace(line) = Boundary /\ ~processed

\* tags after a frontmatter line
TagsAfterLine(tagList, line) ==
    IF CtxTagsMatches(line)
    THEN AppendTags(tagList, Split(TrimSpace(CtxTagsGroup(line))))
    ELSE tagList

----------------------------------------------------------------------------
(* ParseFragment *)

\* the path handed to ParseFragment
ParsePath == <<"g", "a.md">>

(* Inputs of the parser: files written line by line *)

\* most lines of a file
MaxLines == 4

LinePool ==
    { <<"-", "-", "-">>,
      <<" ", "-", "-", "-", "\t">>,
      <<"c", "t", "x", "-", "t", "a", "g", "s", ":", " ", "a", ",", " ", "b">>,
      <<"c", "t", "x", "-", "t", "a", "g", "s", ":", "b", ",", ",", " ", "b", " ">>,
      <<"k", ":", " ", "v">>,
      <<"x">>,
      <<>> }

LineEndings == {<<"\n">>, <<"\r", "\n">>}

\* the lines written one after the other, each but the last followed by the
\* line ending, the last one too when the file ends in a line ending
RECURSIVE WriteLines(_, _, _)
WriteLines(lines, eol, terminated) ==
    IF lines = <<>> THEN <<>>
    ELSE IF Len(lines) = 1 THEN Head(lines) \o (IF terminated THEN eol ELSE <<>>)
    ELSE (Head(lines) \o eol) \o WriteLines(Tail(lines), eol, terminated)

FileTexts ==
    {WriteLines(ls, eol, t) : ls \in SeqsUpTo(LinePool, MaxLines),
                              eol \in LineEndings, t \in BOOLEAN}

\* the lines of sampleContent in createSampleFragment
SampleLines ==
    <<
       <<"c", "t", "x", "-", "t", "a", "g", "s", ":", " ", "h", "e", "l", "l",
         "o", ",", " ", "w", "o", "r", "l", "d", ",", " ", "s", "a", "m", "p",
         "l", "e">>,
       <<>>,
       <<"#", " ", "H", "e", "l", "l", "o", " ", "W", "o", "r", "l", "d">>,
       <<>>,
       <<"T", "h", "i", "s", " ", "i", "s", " ", "a", " ", "s", "a", "m", "p",
         "l", "e", " ", "f", "r", "a", "g", "m", "e", "n", "t", " ", "c", "r",
         "e", "a", "t", "e", "d", " ", "b", "y", " ", "c", "t", "x", " ", "i",
         "n", "i", "t", ".">>,
       <<>>,
       <<"Y", "o", "u", " ", "c", "a", "n", " ", "e", "d", "i", "t", " ", "t",
         "h", "i", "s", " ", "f", "i", "l", "e", " ", "a", "n", "d", " ", "a",
         "d", "d", " ", "m", "o", "r", "e", " ", "f", "r", "a", "g", "m", "e",
         "n", "t", "s", " ", "t", "o", " ", "g", "e", "t", " ", "s", "t", "a",
         "r", "t", "e", "d", " ", "w", "i", "t", "h", " ", "c", "t", "x", ".">>,
       <<>>,
       <<"#", "#", " ", "U", "s", "a", "g", "e">>,
       <<>>,
       <<"R", "u", "n", " ", "'", "c", "t", "x", " ", "b", "u", "i", "l", "d",
         "'", " ", "t", "o", " ", "c", "o", "m", "b", "i", "n", "e", " ", "f",
         "r", "a", "g", "m", "e", "n", "t", "s", " ", "b", "a", "s", "e", "d",
         " ", "o", "n", " ", "t", "a", "g", "s", ".">>
    >>

\* sampleContent: every line of it ends with a newline
sampleContent == Join(SampleLines, <<"\n">>) \o <<"\n">>

InitParse ==
    /\ area = "parse"
    /\ pc = "start"
    /\ fileText \in FileTexts \cup {sampleContent}
    /\ rest = <<>>
    /\ tags = <<>>
    /\ contentLines = <<>>
    /\ inFrontmatter = FALSE
    /\ frontmatterProcessed = FALSE
    /\ parsed = [err |-> "none"]
    /\ IdleCombine
    /\ IdleFilter
    /\ IdleSplice
    /\ IdleBuild
    /\ IdleScan
    /\ IdleInit

\* os.Open succeeds, the scanner is created over the file
Open ==
    /\ area = "parse"
    /\ pc = "start"
    /\ rest' = fileText
    /\ pc' = "scan"
    /\ UNCHANGED <<area, fileText, tags, contentLines, inFrontmatter,
                   frontmatterProcessed, parsed>>
    /\ UNCHANGED <<combineVars, filterVars, spliceVars, buildVars, scanVars, initVars>>

\* os.Open fails: (nil, "failed to open file")
OpenFails ==
    /\ area = "parse"
    /\ pc = "start"
    /\ parsed' = [err |-> "failed to open file"]
    /\ pc' = "failed"
    /\ UNCHANGED <<area, fileText, rest, tags, contentLines, inFrontmatter,
                   frontmatterProcessed>>
    /\ UNCHANGED <<combineVars, filterVars, spliceVars, buildVars, scanVars, initVars>>

\* one iteration of the loop over scanner.Scan()
ScanLine ==
    /\ area = "parse"
    /\ pc = "scan"
    /\ rest # <<>>
    /\ LET line == ScanLinesToken(rest)
       IN  /\ rest' = ScanLinesRest(rest)
           /\ IF TogglesFrontmatter(line, frontmatterProcessed)
              THEN /\ inFrontmatter' = ~inFrontmatter
                   /\ frontmatterProcessed' =
                          (IF ~inFrontmatter' THEN TRUE ELSE frontmatterProcessed)
                   /\ UNCHANGED <<tags, contentLines>>
              ELSE IF inFrontmatter
              THEN /\ tags' = TagsAfterLine(tags, line)
                   /\ UNCHANGED <<contentLines, inFrontmatter, frontmatterProcessed>>
              ELSE /\ contentLines' = Append(contentLines, line)
                   /\ UNCHANGED <<tags, inFrontmatter, frontmatterProcessed>>
    /\ UNCHANGED <<area, pc, fileText, parsed>>
    /\ UNCHANGED <<combineVars, filterVars, spliceVars, buildVars, scanVars, initVars>>

\* the scanner stops on a read error: (nil, "error reading file"), the locals
\* are gone
ReadFails ==
    /\ area = "parse"
    /\ pc = "scan"
    /\ parsed' = [err |-> "error reading file"]
    /\ rest' = <<>>
    /\ tags' = <<>>
    /\ contentLines' = <<>>
    /\ inFrontmatter' = FALSE
    /\ frontmatterProcessed' = FALSE
    /\ pc' = "failed"
    /\ UNCHANGED <<area, fileText>>
    /\ UNCHANGED <<combineVars, filterVars, spliceVars, buildVars, scanVars, initVars>>

\* the scanner is at the end of the file: the fragment is returned
Return ==
    /\ area = "parse"
    /\ pc = "scan"
    /\ rest = <<>>
    /\ parsed' = [err |-> "nil",
                  fragment |-> Fragment(ParsePath, tags, Join(contentLines, <<"\n">>))]
    /\ pc' = "done"
    /\ UNCHANGED <<area, fileText, rest, tags, contentLines, inFrontmatter,
                   frontmatterProcessed>>
    /\ UNCHANGED <<combineVars, filterVars, spliceVars, buildVars, scanVars, initVars>>

SpecParse == InitParse /\ [][Open \/ OpenFails \/ ScanLine \/ ReadFails \/ Return]_vars

(* Properties of the parser *)

\* The lines of a text, read off the positions of its newlines: the k-th line
\* lies between the (k-1)-th and the k-th newline, a text not ending in a
\* newline has one more line after the last newline, and a carriage return
\* before the newline belongs to the line ending.
NewlinesOf(text) == {i \in DOMAIN text : text[i] = "\n"}

LineCount(text) ==
    Cardinality(NewlinesOf(text))
        + (IF text # <<>> /\ text[Len(text)] # "\n" THEN 1 ELSE 0)

LineOf(text, k) ==
    LET nl      == NewlinesOf(text)
        Nth(m)  == IF m = 0 THEN 0
                   ELSE IF m > Cardinality(nl) THEN Len(text) + 1
                   ELSE CHOOSE i \in nl : Cardinality({j \in nl : j < i}) = m - 1
        raw     == SubSeq(text, Nth(k - 1) + 1, Nth(k) - 1)
    IN  IF raw # <<>> /\ raw[Len(raw)] = "\r" THEN SubSeq(raw, 1, Len(raw) - 1) ELSE raw

FileLines(text) == [k \in 1..LineCount(text) |-> LineOf(text, k)]

\* s without the blank characters at its two ends
Stripped(s) ==
    LET Blank(c) == c = " " \/ c = "\t" \/ c = "\r"
        solid    == {i \in DOMAIN s : ~Blank(s[i])}
        first    == CHOOSE a \in solid : \A b \in solid : a <= b
        last     == CHOOSE a \in solid : \A b \in solid : a >= b
    IN  IF solid = {} THEN <<>>
        ELSE [k \in 1..(last - first + 1) |-> s[first + k - 1]]

IsMarkerLine(line) == Stripped(line) = <<"-", "-", "-">>

\* the lines that are boundary markers
MarkerLines(lines) == {k \in DOMAIN lines : IsMarkerLine(lines[k])}

\* first line a marker, and a second marker after it
WellFormedHeader(lines) == 1 \in MarkerLines(lines) /\ MarkerLines(lines) # {1}

ClosingMarker(lines) ==
    CHOOSE k \in MarkerLines(lines) \ {1} : \A m \in MarkerLines(lines) \ {1} : k <= m

\* the tags a line declares: none unless it starts with "ctx-tags:"; else the
\* pieces between the commas of what follows the colon, stripped, the empty
\* ones left out, in order of appearance
DeclaredTags(line) ==
    LET key == <<"c", "t", "x", "-", "t", "a", "g", "s", ":">>
    IN  IF Len(line) < Len(key) \/ SubSeq(line, 1, Len(key)) # key THEN <<>>
        ELSE LET list    == SubSeq(line, Len(key) + 1, Len(line))
                 commas  == {i \in DOMAIN list : list[i] = ","}
                 cuts    == commas \cup {0, Len(list) + 1}
                 Next(c) == CHOOSE d \in cuts : d > c /\ \A e \in cuts : e > c => d <= e
                 Rank(c) == Cardinality({d \in cuts : d < c}) + 1
                 pieces  == [n \in 1..(Cardinality(cuts) - 1) |->
                               LET c == CHOOSE d \in cuts : Rank(d) = n
                               IN  Stripped(SubSeq(list, c + 1, Next(c) - 1))]
                 NonEmpty(t) == t # <<>>
             IN  SelectSeq(pieces, NonEmpty)

\* the tags declared by lines[from..to], in order
RECURSIVE DeclaredTagsOf(_, _, _)
DeclaredTagsOf(lines, from, to) ==
    IF from > to THEN <<>>
    ELSE DeclaredTagsOf(lines, from, to - 1) \o DeclaredTags(lines[to])

\* lines from..to with one newline between consecutive lines
RECURSIVE Unlines(_, _, _)
Unlines(lines, from, to) ==
    IF from > to THEN <<>>
    ELSE IF from = to THEN lines[to]
    ELSE (Unlines(lines, from, to - 1) \o <<"\n">>) \o lines[to]

ParseDone == area = "parse" /\ pc = "done"

\* C9: for a file whose first line is a boundary marker and whose header is
\* closed by a second marker, the returned tags are the comma-separated tokens
\* of the header's ctx-tags lines, trimmed, empty ones dropped, in order,
\* duplicates kept, and the returned content is the lines after the closing
\* marker joined by newlines: no marker of the header, no ctx-tags line and no
\* other header line is in it.
C9_WellFormedHeader ==
    LET lines == FileLines(fileText)
    IN  (ParseDone /\ WellFormedHeader(lines)) =>
            LET close == ClosingMarker(lines)
            IN  /\ parsed.fragment.Tags = DeclaredTagsOf(lines, 2, close - 1)
                /\ parsed.fragment.Content = Unlines(lines, close + 1, Len(lines))
                /\ contentLines = SubSeq(lines, close + 1, Len(lines))

\* a header with a duplicated tag, an empty token and another header line,
\* closed by a marker with blanks around it, followed by content
C9_Witness ==
    /\ ParseDone
    /\ WellFormedHeader(FileLines(fileText))
    /\ ClosingMarker(FileLines(fileText)) = 3
    /\ parsed.fragment.Tags = <<<<"b">>, <<"b">>>>
    /\ parsed.fragment.Content = <<"x">>
    /\ Len(FileLines(fileText)) = 4

\* no line of the file is a boundary marker
NoMarker(text) == MarkerLines(FileLines(text)) = {}

\* C10 as stated: for a file without a boundary-marker line the tags are
\* empty and the content equals the full file text.
C10_ContentIsFileText_Original ==
    (ParseDone /\ NoMarker(fileText)) =>
        /\ parsed.fragment.Tags = <<>>
        /\ parsed.fragment.Content = fileText

\* C10 amended: for a file without a boundary-marker line the tags are empty
\* and the content is the lines of the file, all of them and in order, joined
\* by single newlines: the file text without its line terminators' carriage
\* returns and without a final newline.
C10_ContentIsJoinedLines ==
    (ParseDone /\ NoMarker(fileText)) =>
        LET lines == FileLines(fileText)
        IN  /\ parsed.fragment.Tags = <<>>
            /\ contentLines = lines
            /\ parsed.fragment.Content = Unlines(lines, 1, Len(lines))
            /\ (fileText # <<>> /\ fileText[Len(fileText)] # "\n"
                   /\ \A i \in DOMAIN fileText : fileText[i] # "\r")
                  => parsed.fragment.Content = fileText

\* a file without marker holding a ctx-tags line, ending in a newline
C10_Witness ==
    /\ ParseDone
    /\ NoMarker(fileText)
    /\ Len(FileLines(fileText)) = 3
    /\ \E k \in 1..3 : DeclaredTags(FileLines(fileText)[k]) # <<>>
    /\ fileText[Len(fileText)] = "\n"
    /\ Len(parsed.fragment.Content) < Len(fileText)

\* the first line opens a header and no later line closes it
UnclosedHeader(text) == MarkerLines(FileLines(text)) = {1}

\* C11: for a file whose first line is a boundary marker and which has no
\* second marker, the returned tags are empty and the returned content is the
\* whole file: every line of it, the opening marker included, joined by
\* newlines.
C11_UnclosedHeaderIsContent ==
    (ParseDone /\ UnclosedHeader(fileText)) =>
        LET lines == FileLines(fileText)
        IN  /\ parsed.fragment.Tags = <<>>
            /\ contentLines = lines
            /\ parsed.fragment.Content = Unlines(lines, 1, Len(lines))

----------------------------------------------------------------------------
(* RunBuild: errors, forms, and the helpers of the build *)

\* an error value: its message and what the message was formatted with
Error(msg, arg) == [msg |-> msg, arg |-> arg]

Nil == Error("nil", <<>>)

\* fmt.Errorf(msg + ": %w", inner)
Wrap(msg, inner) == Error(msg, <<inner.msg>> \o inner.arg)

\* GetAllTags looking at the first fragment only
GetAllTags_FirstFragment(frs) ==
    IF frs = <<>> THEN {} ELSE {frs[1].Tags[j] : j \in DOMAIN frs[1].Tags}

\* the distinct tags of the fragments; the slice GetAllTags returns lists them
\* in the iteration order of a map, which is not specified
GetAllTags(frs) ==
    UNION {{frs[i].Tags[j] : j \in DOMAIN frs[i].Tags} : i \in DOMAIN frs}

\* the orders in which the elements of S can be listed
Orderings(S) ==
    {s \in [1..Cardinality(S) -> S] : \A i, j \in DOMAIN s : s[i] = s[j] => i = j}

\* what a multi-select over the options S can hold when it is submitted: at
\* least one option (the forms validate this), none twice
Selections(S) == UNION {Orderings(T) : T \in (SUBSET S) \ {{}}}

\* how form.Run() of a multi-select can end: submitted with a selection, or
\* with an error (huh.ErrUserAborted when the user cancels)
SelectOutcomes(S) ==
    {[err |-> "nil", value |-> v] : v \in Selections(S)}
        \cup {[err |-> e, value |-> <<>>] : e \in {"user aborted", "form failed"}}

\* how form.Run() of the confirmation can end
ConfirmOutcomes ==
    {[err |-> "nil", value |-> v] : v \in BOOLEAN}
        \cup {[err |-> e, value |-> FALSE] : e \in {"user aborted", "form failed"}}

\* the record of a form that was run: how form.Run() ended and, for the
\* confirmation, the answer given
Prompt(form, outcome, answer) == [form |-> form, err |-> outcome.err, answer |-> answer]

\* the record of a run of the tag form: as Prompt, with the options the
\* multi-select was built with (one option for each element of allTags)
TagPrompt(allTags, outcome) ==
    [form |-> "selectTags", err |-> outcome.err, answer |-> "none", options |-> allTags]

\* strings.Join(names, ", ") for a list of names
JoinNames(names) == Join([i \in DOMAIN names |-> <<names[i]>>], <<", ">>)

\* selectTags taking an aborted form for an empty selection
selectTags_AbortIsEmpty(allTags, defaultTags, outcome) ==
    [tags |-> outcome.value, err |-> Nil]

\* selectTags: the selection of the form, or its error
selectTags(allTags, defaultTags, outcome) ==
    IF outcome.err # "nil"
    THEN [tags |-> <<>>, err |-> Error(outcome.err, <<>>)]
    ELSE [tags |-> outcome.value, err |-> Nil]

\* determineSelectedTags; outcome is how the tag form ends if it is run
determineSelectedTags(o, c, frs, outcome) ==
    LET allTags == GetAllTags(frs)
    IN  IF allTags = {}
        THEN [tags |-> <<>>, err |-> Error("no tags found in fragments", <<>>),
              asked |-> <<>>]
        ELSE IF Len(o.Tags) > 0
        THEN [tags |-> o.Tags, err |-> Nil, asked |-> <<>>]
        ELSE IF o.NonInteractive
        THEN [tags |-> c.DefaultTags, err |-> Nil, asked |-> <<>>]
        ELSE LET sel == selectTags(allTags, c.DefaultTags, outcome)
             IN  IF sel.err # Nil
                 THEN [tags |-> <<>>, err |-> Wrap("tag selection failed", sel.err),
                       asked |-> <<TagPrompt(allTags, outcome)>>]
                 ELSE [tags |-> sel.tags, err |-> Nil,
                       asked |-> <<TagPrompt(allTags, outcome)>>]

\* the filter without the check of its result
filterFragments_NoCheck(frs, selTags) ==
    [fragments |-> FilterFragmentsByTags(frs, selTags), err |-> Nil]

\* RunBuild, lines 36-39: the filter and the check of its result
filterFragments(frs, selTags) ==
    LET kept == FilterFragmentsByTags(frs, selTags)
    IN  IF Len(kept) = 0
        THEN [fragments |-> kept,
              err |-> Error("no fragments match the selected tags", JoinNames(selTags))]
        ELSE [fragments |-> kept, err |-> Nil]

\* selectOutputFormats: the selection of the form, or its error; the options
\* are the configured formats and "stdout"
selectOutputFormats(availableFormats, outcome) ==
    IF outcome.err # "nil"
    THEN [formats |-> <<>>, err |-> Error(outcome.err, <<>>)]
    ELSE [formats |-> outcome.value, err |-> Nil]

\* the options of the format form
FormatOptions(availableFormats) == (DOMAIN availableFormats) \cup {"stdout"}

\* determineOutputFormats, lines 121-140: no flag names an output; keys is
\* the order in which the range over cfg.OutputFormats yields its keys,
\* outcome is how the format form ends if it is run
formatsFromConfig(o, c, keys, outcome) ==
    IF o.NonInteractive
    THEN IF DOMAIN c.OutputFormats = {}
         THEN [formats |-> <<>>, files |-> <<>>,
               err |-> Error("no output formats configured and none specified", <<>>),
               asked |-> <<>>]
         ELSE [formats |-> keys, files |-> <<>>, err |-> Nil, asked |-> <<>>]
    ELSE LET sel == selectOutputFormats(c.OutputFormats, outcome)
         IN  IF sel.err # Nil
             THEN [formats |-> <<>>, files |-> <<>>,
                   err |-> Wrap("output format selection failed", sel.err),
                   asked |-> <<Prompt("selectOutputFormats", outcome, "none")>>]
             ELSE [formats |-> sel.formats, files |-> <<>>, err |-> Nil,
                   asked |-> <<Prompt("selectOutputFormats", outcome, "none")>>]

\* determineOutputFormats looking at the explicit file before the explicit
\* formats
determineOutputFormats_FileFirst(o, c, keys, outcome) ==
    IF o.Stdout
    THEN [formats |-> <<"stdout">>, files |-> <<>>, err |-> Nil, asked |-> <<>>]
    ELSE IF o.OutputFile # <<>>
    THEN [formats |-> <<"custom">>, files |-> <<o.OutputFile>>, err |-> Nil,
          asked |-> <<>>]
    ELSE IF Len(o.OutputFormats) > 0
    THEN [formats |-> o.OutputFormats, files |-> <<>>, err |-> Nil, asked |-> <<>>]
    ELSE formatsFromConfig(o, c, keys, outcome)

\* determineOutputFormats refusing an explicit format that is not configured
determineOutputFormats_Validating(o, c, keys, outcome) ==
    IF o.Stdout
    THEN [formats |-> <<"stdout">>, files |-> <<>>, err |-> Nil, asked |-> <<>>]
    ELSE IF Len(o.OutputFormats) > 0
    THEN IF \E i \in DOMAIN o.OutputFormats :
                o.OutputFormats[i] \notin FormatOptions(c.OutputFormats)
         THEN [formats |-> <<>>, files |-> <<>>,
               err |-> Error("unknown output format", <<>>), asked |-> <<>>]
         ELSE [formats |-> o.OutputFormats, files |-> <<>>, err |-> Nil, asked |-> <<>>]
    ELSE IF o.OutputFile # <<>>
    THEN [formats |-> <<"custom">>, files |-> <<o.OutputFile>>, err |-> Nil,
          asked |-> <<>>]
    ELSE formatsFromConfig(o, c, keys, outcome)

\* determineOutputFormats
determineOutputFormats(o, c, keys, outcome) ==
    IF o.Stdout
    THEN [formats |-> <<"stdout">>, files |-> <<>>, err |-> Nil, asked |-> <<>>]
    ELSE IF Len(o.OutputFormats) > 0
    THEN [formats |-> o.OutputFormats, files |-> <<>>, err |-> Nil, asked |-> <<>>]
    ELSE IF o.OutputFile # <<>>
    THEN [formats |-> <<"custom">>, files |-> <<o.OutputFile>>, err |-> Nil,
          asked |-> <<>>]
    ELSE formatsFromConfig(o, c, keys, outcome)

\* what is printed to standard output: the call and its text
Printed(what, text) == [what |-> what, text |-> text]

\* the confirmation going on to the splice whatever the answer is
confirmStep_IgnoreAnswer(o, outcome) ==
    IF o.NonInteractive
    THEN [proceed |-> TRUE, err |-> Nil, asked |-> <<>>, printed |-> <<>>]
    ELSE IF outcome.err # "nil"
    THEN [proceed |-> FALSE, err |-> Wrap("confirmation failed", Error(outcome.err, <<>>)),
          asked |-> <<Prompt("confirmBuild", outcome, "none")>>, printed |-> <<>>]
    ELSE [proceed |-> TRUE, err |-> Nil,
          asked |-> <<Prompt("confirmBuild", outcome, IF outcome.value THEN "yes" ELSE "no")>>,
          printed |-> <<>>]

\* RunBuild, lines 46-56: the confirmation; proceed tells whether the build
\* goes on to the splice
confirmStep(o, outcome) ==
    IF o.NonInteractive
    THEN [proceed |-> TRUE, err |-> Nil, asked |-> <<>>, printed |-> <<>>]
    ELSE IF outcome.err # "nil"
    THEN [proceed |-> FALSE, err |-> Wrap("confirmation failed", Error(outcome.err, <<>>)),
          asked |-> <<Prompt("confirmBuild", outcome, "none")>>, printed |-> <<>>]
    ELSE IF ~outcome.value
    THEN [proceed |-> FALSE, err |-> Nil,
          asked |-> <<Prompt("confirmBuild", outcome, "no")>>,
          printed |-> <<Printed("Println", <<"Build cancelled.">>)>>]
    ELSE [proceed |-> TRUE, err |-> Nil,
          asked |-> <<Prompt("confirmBuild", outcome, "yes")>>, printed |-> <<>>]

\* filepath.Dir of a path given by its components; <<>> stands for "."
Dir(filename) == SubSeq(filename, 1, Len(filename) - 1)

\* os.MkdirAll(dir): dir and the directories above it
MkdirAll(dirs, dir) == dirs \cup {SubSeq(dir, 1, k) : k \in 1..Len(dir)}

\* os.WriteFile(filename, data): the file is created or overwritten
WriteFile(files, filename, data) ==
    [f \in (DOMAIN files) \cup {filename} |-> IF f = filename THEN data ELSE files[f]]

\* Filename asking the configuration before the custom files
Filename_ConfigFirst(i, format, customFiles, c) ==
    IF format \in DOMAIN c.OutputFormats
    THEN [exists |-> TRUE, name |-> c.OutputFormats[format]]
    ELSE IF format = "custom" /\ i - 1 < Len(customFiles)
    THEN [exists |-> TRUE, name |-> customFiles[i]]
    ELSE [exists |-> FALSE, name |-> <<>>]

\* the file name writeOutputFiles finds for the format at the one-based
\* index i: the custom file at that index for "custom", else the file name
\* the configuration gives the format, if it gives one
Filename(i, format, customFiles, c) ==
    IF format = "custom" /\ i - 1 < Len(customFiles)
    THEN [exists |-> TRUE, name |-> customFiles[i]]
    ELSE IF format \in DOMAIN c.OutputFormats
    THEN [exists |-> TRUE, name |-> c.OutputFormats[format]]
    ELSE [exists |-> FALSE, name |-> <<>>]

\* the loop of writeOutputFiles from index i on; disk is the state of the
\* disk and printed what the loop has printed so far; fail names the loop
\* index at which the operating system refuses a call, and the call
RECURSIVE writeLoop(_, _, _, _, _, _, _, _)
writeLoop(i, out, formats, customFiles, c, disk, printed, fail) ==
    IF i > Len(formats) THEN [fs |-> disk, printed |-> printed, err |-> Nil]
    ELSE LET format == formats[i]
         IN  IF format = "stdout"
             THEN writeLoop(i + 1, out, formats, customFiles, c, disk, printed, fail)
             ELSE IF ~Filename(i, format, customFiles, c).exists
             THEN [fs |-> disk, printed |-> printed,
                   err |-> Error("unknown output format", <<format>>)]
             ELSE LET filename == Filename(i, format, customFiles, c).name
                      dir      == Dir(filename)
                      mkdir    == dir # <<>>
                      made     == IF mkdir
                                  THEN [disk EXCEPT !.dirs = MkdirAll(disk.dirs, dir)]
                                  ELSE disk
                      written  == [made EXCEPT !.files = WriteFile(made.files, filename, out)]
                 IN  IF mkdir /\ fail = [at |-> i, call |-> "MkdirAll"]
                     THEN [fs |-> disk, printed |-> printed,
                           err |-> Error("failed to create directory", dir)]
                     ELSE IF fail = [at |-> i, call |-> "WriteFile"]
                     THEN [fs |-> made, printed |-> printed,
                           err |-> Error("failed to write file", filename)]
                     ELSE writeLoop(i + 1, out, formats, customFiles, c, written,
                                    Append(printed, Printed("Printf", <<"Output written to: ">> \o filename)),
                                    fail)

\* writeOutputFiles looking for a file name for every format before it
\* writes the first file
writeOutputFiles_CheckFirst(out, formats, customFiles, c, disk, fail) ==
    LET unknown == {i \in DOMAIN formats :
                       formats[i] # "stdout" /\ ~Filename(i, formats[i], customFiles, c).exists}
    IN  IF unknown # {}
        THEN [fs |-> disk, printed |-> <<>>,
              err |-> Error("unknown output format",
                            <<formats[CHOOSE i \in unknown : \A k \in unknown : i <= k]>>)]
        ELSE writeLoop(1, out, formats, customFiles, c, disk, <<>>, fail)

\* writeOutputFiles that returns after the first format of the list
writeOutputFiles_FirstOnly(out, formats, customFiles, c, disk, fail) ==
    writeLoop(1, out, SubSeq(formats, 1, 1), customFiles, c, disk, <<>>, fail)

writeOutputFiles(out, formats, customFiles, c, disk, fail) ==
    writeLoop(1, out, formats, customFiles, c, disk, <<>>, fail)

handleOutput(o, out, formats, customFiles, c, disk, fail) ==
    IF o.Stdout
    THEN [fs |-> disk, printed |-> <<Printed("Print", out)>>, err |-> Nil]
    ELSE LET w == writeOutputFiles(out, formats, customFiles, c, disk, fail)
         IN  IF w.err # Nil
             THEN [w EXCEPT !.err = Wrap("failed to write output files", w.err)]
             ELSE w

----------------------------------------------------------------------------
(* RunBuild *)

(* Inputs of the build *)

\* what the fragments directory can hold
BuildFragments ==
    { Fragment(<<"g", "a.md">>, <<"a">>, <<"A">>),
      Fragment(<<"g", "b.md">>, <<"b", "a">>, <<"B">>),
      Fragment(<<"g", "u.md">>, <<>>, <<"U">>) }

BuildScans == {s \in SeqsUpTo(BuildFragments, MaxFrags) : DistinctPaths(s)}

\* --tags
OptionTags == {<<>>, <<"b", "a">>, <<"z", "y">>}

\* --output-format
OptionFormats ==
    {<<>>, <<"opencode">>, <<"stdout", "gemini">>, <<"nope">>,
     <<"gemini", "stdout", "nope", "opencode">>}

\* --output-file
OptionFiles == {<<>>, <<"out", "x.md">>}

ConfigDefaultTags == {<<>>, <<"a">>}

\* output_formats of the configuration: format name -> file name
ConfigFormats ==
    { [f \in {} |-> <<>>],
      [f \in {"opencode"} |-> <<"AGENTS.md">>],
      [f \in {"custom"} |-> <<"CUSTOM.md">>],
      [f \in {"opencode", "gemini"} |->
           IF f = "opencode" THEN <<"AGENTS.md">> ELSE <<"docs", "GEMINI.md">>] }

\* the disk before the build: AGENTS.md is there from an earlier build
InitialDisk ==
    [files |-> [f \in {<<"AGENTS.md">>} |-> <<"o", "l", "d">>], dirs |-> {}]

\* the calls of writeOutputFiles the operating system can refuse
WriteFailures(formats) ==
    {[at |-> 0, call |-> "none"]}
        \cup {[at |-> i, call |-> k] : i \in DOMAIN formats, k \in {"MkdirAll", "WriteFile"}}

InitBuild ==
    /\ area = "build"
    /\ pc = "load"
    /\ opts \in [Tags : OptionTags, NonInteractive : BOOLEAN,
                 OutputFormats : OptionFormats, OutputFile : OptionFiles,
                 Stdout : BOOLEAN]
    /\ cfg \in [DefaultTags : ConfigDefaultTags, OutputFormats : ConfigFormats]
    /\ globalFragments \in BuildScans
    /\ localFragments = <<>>
    /\ noLocalOverride = FALSE
    /\ combined = <<>>
    /\ IdleFilter
    /\ IdleSplice
    /\ IdleParse
    /\ IdleScan
    /\ IdleInit
    /\ filteredFragments = <<>>
    /\ selectedOutputFormats = <<>>
    /\ outputFiles = <<>>
    /\ output = <<>>
    /\ fs = InitialDisk
    /\ stdout = <<>>
    /\ prompts = <<>>
    /\ err = Nil

\* RunBuild returns e
ReturnWith(e) == pc' = "returned" /\ err' = e

\* loadConfigAndFragments fails: the configuration cannot be loaded, the
\* fragments directory cannot be determined, or the scan fails
LoadFails ==
    /\ area = "build"
    /\ pc = "load"
    /\ \E msg \in {"failed to load config", "failed to get fragments directory",
                   "failed to scan fragments"} :
           ReturnWith(Wrap(msg, Error("io", <<>>)))
    /\ UNCHANGED <<area, opts, cfg, filteredFragments, selectedOutputFormats,
                   outputFiles, output, fs, stdout, prompts>>
    /\ UNCHANGED <<combineVars, filterVars, spliceVars, parseVars, scanVars, initVars>>

\* loadConfigAndFragments: the scan of the fragments directory
LoadConfigAndFragments ==
    /\ area = "build"
    /\ pc = "load"
    /\ IF Len(globalFragments) = 0
       THEN /\ ReturnWith(Error("no fragments found in", <<"fragmentsDir">>))
            /\ UNCHANGED fragments
       ELSE /\ fragments' = globalFragments
            /\ pc' = "tags"
            /\ UNCHANGED err
    /\ UNCHANGED <<area, opts, cfg, filteredFragments, selectedOutputFormats,
                   outputFiles, output, fs, stdout, prompts>>
    /\ UNCHANGED <<combineVars, selectedTags, filtered, refiltered, spliceVars, parseVars,
                 scanVars, initVars>>

\* selectedTags, err := determineSelectedTags(opts, cfg, fragments)
DetermineSelectedTags ==
    /\ area = "build"
    /\ pc = "tags"
    /\ \E outcome \in SelectOutcomes(GetAllTags(fragments)) :
           LET r == determineSelectedTags(opts, cfg, fragments, outcome)
           IN  /\ prompts' = prompts \o r.asked
               /\ IF r.err # Nil
                  THEN ReturnWith(r.err) /\ UNCHANGED selectedTags
                  ELSE selectedTags' = r.tags /\ pc' = "filter" /\ UNCHANGED err
    /\ UNCHANGED <<area, opts, cfg, filteredFragments, selectedOutputFormats,
                   outputFiles, output, fs, stdout>>
    /\ UNCHANGED <<combineVars, fragments, filtered, refiltered, spliceVars, parseVars,
                 scanVars, initVars>>

\* filteredFragments := parser.FilterFragmentsByTags(fragments, selectedTags)
\* and the check that something is left
FilterAndCheck ==
    /\ area = "build"
    /\ pc = "filter"
    /\ LET r == filterFragments(fragments, selectedTags)
       IN  IF r.err # Nil
           THEN ReturnWith(r.err) /\ UNCHANGED filteredFragments
           ELSE filteredFragments' = r.fragments /\ pc' = "formats" /\ UNCHANGED err
    /\ UNCHANGED <<area, opts, cfg, selectedOutputFormats, outputFiles, output, fs,
                   stdout, prompts>>
    /\ UNCHANGED <<combineVars, filterVars, spliceVars, parseVars, scanVars, initVars>>

\* selectedOutputFormats, outputFiles, err := determineOutputFormats(opts, cfg)
DetermineOutputFormats ==
    /\ area = "build"
    /\ pc = "formats"
    /\ \E keys \in Orderings(DOMAIN cfg.OutputFormats),
          outcome \in SelectOutcomes(FormatOptions(cfg.OutputFormats)) :
           LET r == determineOutputFormats(opts, cfg, keys, outcome)
           IN  /\ prompts' = prompts \o r.asked
               /\ IF r.err # Nil
                  THEN /\ ReturnWith(r.err)
                       /\ UNCHANGED <<selectedOutputFormats, outputFiles>>
                  ELSE /\ selectedOutputFormats' = r.formats
                       /\ outputFiles' = r.files
                       /\ pc' = "confirm"
                       /\ UNCHANGED err
    /\ UNCHANGED <<area, opts, cfg, filteredFragments, output, fs, stdout>>
    /\ UNCHANGED <<combineVars, filterVars, spliceVars, parseVars, scanVars, initVars>>

\* the confirmation of an interactive build
ConfirmBuild ==
    /\ area = "build"
    /\ pc = "confirm"
    /\ \E outcome \in ConfirmOutcomes :
           LET r == confirmStep(opts, outcome)
           IN  /\ prompts' = prompts \o r.asked
               /\ stdout' = stdout \o r.printed
               /\ IF r.proceed
                  THEN pc' = "splice" /\ UNCHANGED err
                  ELSE ReturnWith(r.err)
    /\ UNCHANGED <<area, opts, cfg, filteredFragments, selectedOutputFormats,
                   outputFiles, output, fs>>
    /\ UNCHANGED <<combineVars, filterVars, spliceVars, parseVars, scanVars, initVars>>

\* output := parser.SpliceFragments(filteredFragments)
SpliceOutput ==
    /\ area = "build"
    /\ pc = "splice"
    /\ output' = SpliceFragments(filteredFragments)
    /\ pc' = "output"
    /\ UNCHANGED <<area, opts, cfg, filteredFragments, selectedOutputFormats,
                   outputFiles, fs, stdout, prompts, err>>
    /\ UNCHANGED <<combineVars, filterVars, spliceVars, parseVars, scanVars, initVars>>

\* return handleOutput(opts, output, selectedOutputFormats, outputFiles, cfg)
HandleOutput ==
    /\ area = "build"
    /\ pc = "output"
    /\ \E fail \in WriteFailures(selectedOutputFormats) :
           LET r == handleOutput(opts, output, selectedOutputFormats, outputFiles,
                                 cfg, fs, fail)
           IN  /\ fs' = r.fs
               /\ stdout' = stdout \o r.printed
               /\ ReturnWith(r.err)
    /\ UNCHANGED <<area, opts, cfg, filteredFragments, selectedOutputFormats,
                   outputFiles, output, prompts>>
    /\ UNCHANGED <<combineVars, filterVars, spliceVars, parseVars, scanVars, initVars>>

RunBuild ==
    \/ LoadFails
    \/ LoadConfigAndFragments
    \/ DetermineSelectedTags
    \/ FilterAndCheck
    \/ DetermineOutputFormats
    \/ ConfirmBuild
    \/ SpliceOutput
    \/ HandleOutput

SpecBuild == InitBuild /\ [][RunBuild]_vars

BuildReturned == area = "build" /\ pc = "returned"

----------------------------------------------------------------------------
(* Properties of the build *)

\* determineSelectedTags has been called and has returned
TagsResolved == area = "build" /\ pc \notin {"load", "tags"} /\ fragments # <<>>

\* determineSelectedTags returned an error
TagsFailed ==
    /\ BuildReturned
    /\ err.msg \in {"no tags found in fragments", "tag selection failed"}

\* the tag form was run
TagFormRun == \E i \in DOMAIN prompts : prompts[i].form = "selectTags"

\* C12: whenever explicit tags are given, the tag resolver succeeds and
\* returns exactly these tags, in interactive and in non-interactive mode,
\* whatever the default tags are and whatever tags the fragments declare (none
\* at all included), and the tag form is not run.
C12_ExplicitTagsReturned ==
    (TagsResolved /\ Len(opts.Tags) > 0) =>
        /\ ~TagsFailed
        /\ selectedTags = opts.Tags
        /\ ~TagFormRun

\* C13: in non-interactive mode without explicit tags the tag resolver never
\* fails and returns the configured default tags as they are, for every list
\* of fragments; with empty default tags the build then filters over all
\* fragments, keeping every one of them.
C13_DefaultTagsReturned ==
    (TagsResolved /\ Len(opts.Tags) = 0 /\ opts.NonInteractive) =>
        /\ ~TagsFailed
        /\ selectedTags = cfg.DefaultTags
        /\ (cfg.DefaultTags = <<>> /\ pc \notin {"filter"})
              => filteredFragments = fragments

\* determineOutputFormats has been called and has returned
FormatsResolved == area = "build" /\ filteredFragments # <<>> /\ pc # "formats"

\* determineOutputFormats returned an error
FormatsFailed ==
    /\ BuildReturned
    /\ err.msg \in {"no output formats configured and none specified",
                    "output format selection failed"}

\* the format form was run
FormatFormRun == \E i \in DOMAIN prompts : prompts[i].form = "selectOutputFormats"

\* s lists every element of S exactly once
ListsOnce(s, S) == Len(s) = Cardinality(S) /\ {s[i] : i \in DOMAIN s} = S

\* C14: the output resolver follows its decision table, the first matching
\* rule winning: (1) with the stdout flag the formats are ["stdout"] and there
\* are no file destinations; (2) else explicit formats are returned as they
\* are, without file destinations; (3) else an explicit file gives ["custom"]
\* with that file as the one destination; (4) else a non-interactive build
\* gets every configured format name exactly once, or fails when none is
\* configured; (5) else the format form is run.  Rules 1 to 4 never run the
\* form and rules 1 to 3 never fail.
C14_DecisionTable ==
    FormatsResolved =>
        IF opts.Stdout
        THEN /\ ~FormatsFailed /\ ~FormatFormRun
             /\ selectedOutputFormats = <<"stdout">> /\ outputFiles = <<>>
        ELSE IF opts.OutputFormats # <<>>
        THEN /\ ~FormatsFailed /\ ~FormatFormRun
             /\ selectedOutputFormats = opts.OutputFormats /\ outputFiles = <<>>
        ELSE IF opts.OutputFile # <<>>
        THEN /\ ~FormatsFailed /\ ~FormatFormRun
             /\ selectedOutputFormats = <<"custom">>
             /\ outputFiles = <<opts.OutputFile>>
        ELSE IF opts.NonInteractive
        THEN /\ ~FormatFormRun
             /\ IF DOMAIN cfg.OutputFormats = {}
                THEN /\ BuildReturned
                     /\ err.msg = "no output formats configured and none specified"
                ELSE /\ ~FormatsFailed
                     /\ ListsOnce(selectedOutputFormats, DOMAIN cfg.OutputFormats)
                     /\ outputFiles = <<>>
        ELSE FormatFormRun

\* a non-interactive build without output flags took the two configured
\* formats, gemini first
C14_Witness ==
    /\ FormatsResolved
    /\ ~opts.Stdout /\ opts.OutputFormats = <<>> /\ opts.OutputFile = <<>>
    /\ opts.NonInteractive
    /\ selectedOutputFormats = <<"gemini", "opencode">>
    /\ pc = "confirm"

\* the confirmation was answered with no
Declined == \E i \in DOMAIN prompts : prompts[i].answer = "no"

\* handleOutput has run and the build has returned without error
Built == BuildReturned /\ err = Nil /\ ~Declined

\* the document has been printed to standard output
DocumentPrinted ==
    \E i \in DOMAIN stdout : stdout[i].what = "Print" /\ stdout[i].text = output

\* the file that entry i of the resolved formats stands for
Destination(i) ==
    IF selectedOutputFormats[i] = "custom" /\ i <= Len(outputFiles)
    THEN outputFiles[i]
    ELSE cfg.OutputFormats[selectedOutputFormats[i]]

\* C15: whenever the resolved formats contain "stdout", wherever it came
\* from (the stdout flag, an explicit format name, the format form), a build
\* that completes has printed the document to standard output and has written
\* no file for that entry: the files on disk are those that were there and
\* the destinations of the other entries.
C15_StdoutEntryPrinted ==
    (Built /\ \E i \in DOMAIN selectedOutputFormats : selectedOutputFormats[i] = "stdout") =>
        /\ DocumentPrinted
        /\ DOMAIN fs.files =
              (DOMAIN InitialDisk.files)
                 \cup {Destination(i) : i \in {j \in DOMAIN selectedOutputFormats :
                                                  selectedOutputFormats[j] # "stdout"}}

\* the explicit formats name a format that is not configured
UnknownRequested ==
    /\ ~opts.Stdout
    /\ \E i \in DOMAIN opts.OutputFormats :
           opts.OutputFormats[i] \notin FormatOptions(cfg.OutputFormats)

\* the build has failed on a format without destination
UnknownFormatRaised ==
    /\ BuildReturned
    /\ err.msg \in {"unknown output format", "failed to write output files"}
    /\ \E i \in DOMAIN err.arg : err.arg[i] = "unknown output format"

\* C16: an explicit format name that is not configured is accepted by the
\* output resolver, which returns the explicit formats without error; the
\* unknown-format failure arises only in the step that writes the output, and
\* that step, once reached with such a format, does not succeed.
C16_UnknownFormatAtWriteTime ==
    /\ []((FormatsResolved /\ UnknownRequested) =>
              /\ ~FormatsFailed
              /\ selectedOutputFormats = opts.OutputFormats)
    /\ [][(UnknownFormatRaised' /\ ~UnknownFormatRaised) => pc = "output"]_vars
    /\ [][(pc = "output" /\ UnknownRequested) =>
              err'.msg = "failed to write output files"]_vars

\* the build returned the unknown-format error for the explicit format nope
C16_Witness ==
    /\ UnknownRequested
    /\ UnknownFormatRaised
    /\ opts.OutputFormats = <<"nope">>
    /\ err = Error("failed to write output files", <<"unknown output format", "nope">>)
    /\ fs = InitialDisk

\* a form was cancelled by the user: aborted, or the confirmation declined
Cancelled ==
    \E i \in DOMAIN prompts : prompts[i].err = "user aborted" \/ prompts[i].answer = "no"

\* every form run so far was submitted, the confirmation with yes
AllAffirmative ==
    \A i \in DOMAIN prompts : prompts[i].err = "nil" /\ prompts[i].answer # "no"

\* the print calls that have written the document
Prints == {i \in DOMAIN stdout : stdout[i].what = "Print"}

\* C17: once a form of the build has been cancelled, the build has returned,
\* the disk is as it was before the build and the document has not been
\* printed; and every step that changes the disk or prints the document is
\* the output step, taken after the splice, with every form that was run
\* answered affirmatively (in an interactive build the confirmation among
\* them).
C17_NoOutputAfterCancellation ==
    /\ []((area = "build" /\ Cancelled) =>
              /\ BuildReturned
              /\ fs = InitialDisk
              /\ Prints = {})
    /\ [][(fs' # fs \/ Prints' # Prints) =>
              /\ pc = "output"
              /\ output = SpliceFragments(filteredFragments)
              /\ AllAffirmative
              /\ ~opts.NonInteractive =>
                    \E i \in DOMAIN prompts :
                        prompts[i].form = "confirmBuild" /\ prompts[i].answer = "yes"]_vars

\* an interactive build chose its tags and formats in the forms and was
\* declined at the confirmation
C17_Witness ==
    /\ BuildReturned
    /\ Len(prompts) = 3
    /\ prompts[3].form = "confirmBuild" /\ prompts[3].answer = "no"
    /\ selectedOutputFormats = <<"opencode", "stdout">>
    /\ fs = InitialDisk

\* C18 as stated: a build in which a form was cancelled (tag form, format
\* form or confirmation) returns without error.
C18_CancellationSucceeds_Original == (BuildReturned /\ Cancelled) => err = Nil

\* the error message RunBuild gives for a failed form
FormError(form) ==
    CASE form = "selectTags" -> "tag selection failed"
      [] form = "selectOutputFormats" -> "output format selection failed"
      [] form = "confirmBuild" -> "confirmation failed"

\* C18 amended: only a declined confirmation ends the build without error:
\* the build prints "Build cancelled." and returns nil.  A form that the user
\* aborts (tag form, format form or confirmation) ends the build with an
\* error that names the form and wraps "user aborted".  In both cases the
\* cancelled form is the last one run and nothing is written.
C18_OnlyDeclinedConfirmationSucceeds ==
    (BuildReturned /\ Cancelled) =>
        LET last == prompts[Len(prompts)]
        IN  /\ fs = InitialDisk
            /\ IF Declined
               THEN /\ last.form = "confirmBuild" /\ last.answer = "no"
                    /\ err = Nil
                    /\ stdout = <<Printed("Println", <<"Build cancelled.">>)>>
               ELSE /\ last.err = "user aborted"
                    /\ err = Error(FormError(last.form), <<"user aborted">>)
                    /\ stdout = <<>>

\* the format form was aborted after the tag form had been submitted
C18_Witness ==
    /\ BuildReturned
    /\ Len(prompts) = 2
    /\ prompts[2].form = "selectOutputFormats" /\ prompts[2].err = "user aborted"
    /\ err = Error("output format selection failed", <<"user aborted">>)
    /\ selectedTags = <<"b", "a">>

\* C20: when the filter leaves no fragment for the selected tags, the build
\* has failed with the error "no fragments match the selected tags" followed
\* by the selected tags joined with ", ", no output format has been resolved,
\* no form other than the tag form has been run, nothing has been written and
\* nothing printed.
C20_EmptySelectionFails ==
    (/\ TagsResolved /\ ~TagsFailed /\ pc # "filter"
     /\ FilterFragmentsByTags(fragments, selectedTags) = <<>>) =>
        /\ BuildReturned
        /\ err = Error("no fragments match the selected tags", JoinNames(selectedTags))
        /\ \A i \in DOMAIN selectedTags : \E k \in DOMAIN err.arg : err.arg[k] = selectedTags[i]
        /\ selectedOutputFormats = <<>> /\ outputFiles = <<>>
        /\ \A i \in DOMAIN prompts : prompts[i].form = "selectTags"
        /\ fs = InitialDisk
        /\ stdout = <<>>
        /\ output = <<>>

\* the explicit tags z and y match none of two fragments, one of them tagged
C20_Witness ==
    /\ BuildReturned
    /\ Len(fragments) = 2
    /\ selectedTags = <<"z", "y">>
    /\ err = Error("no fragments match the selected tags", <<"z", ", ", "y">>)
    /\ opts.Stdout /\ opts.NonInteractive

----------------------------------------------------------------------------
(* The build over the global and the local fragments directory *)

\* The command passes NoLocalOverride to RunBuild (part_000:37-48) and the
\* integration tests build documents from a global and a local directory;
\* the steps below are the pipeline of such a build: scan both directories,
\* merge, filter by the selected tags, splice.

\* the global and the local directory of the build
DocumentGlobal ==
    { Fragment(<<"g", "common.md">>, <<"common", "global">>, <<"g", "c">>),
      Fragment(<<"g", "ts.md">>, <<"typescript", "global">>, <<"g", "t">>) }

DocumentLocal ==
    { Fragment(<<"l", "common.md">>, <<"common", "local">>, <<"l", "c">>),
      Fragment(<<"l", "notes.md">>, <<"local">>, <<"l", "n">>) }

DocumentTags == {"common", "typescript", "local"}

DocumentScans(dir) == {s \in SeqsUpTo(dir, MaxFrags) : DistinctPaths(s)}

InitDocument ==
    /\ area = "document"
    /\ pc = "merge"
    /\ globalFragments \in DocumentScans(DocumentGlobal)
    /\ localFragments \in DocumentScans(DocumentLocal)
    /\ noLocalOverride \in BOOLEAN
    /\ combined = <<>>
    /\ fragments = <<>>
    /\ selectedTags \in SeqsUpTo(DocumentTags, MaxTags)
    /\ filtered = <<>>
    /\ refiltered = <<>>
    /\ IdleSplice
    /\ IdleParse
    /\ IdleBuild
    /\ IdleScan
    /\ IdleInit

\* fragments := merge(scan(global), scan(local), overrideMode); no fragment
\* at all ends the build
MergeScans ==
    /\ area = "document"
    /\ pc = "merge"
    /\ fragments' = CombineFragments(globalFragments, localFragments, noLocalOverride)
    /\ IF fragments' = <<>>
       THEN ReturnWith(Error("no fragments found in", <<"fragmentsDir">>))
       ELSE pc' = "filter" /\ UNCHANGED err
    /\ UNCHANGED <<area, opts, cfg, filteredFragments, selectedOutputFormats,
                   outputFiles, output, fs, stdout, prompts>>
    /\ UNCHANGED <<combineVars, selectedTags, filtered, refiltered, spliceVars, parseVars,
                 scanVars, initVars>>

\* filteredFragments := filter(fragments, selectedTags); no fragment left
\* ends the build
FilterMerged ==
    /\ area = "document"
    /\ pc = "filter"
    /\ LET r == filterFragments(fragments, selectedTags)
       IN  IF r.err # Nil
           THEN ReturnWith(r.err) /\ UNCHANGED filteredFragments
           ELSE filteredFragments' = r.fragments /\ pc' = "splice" /\ UNCHANGED err
    /\ UNCHANGED <<area, opts, cfg, selectedOutputFormats, outputFiles, output, fs,
                   stdout, prompts>>
    /\ UNCHANGED <<combineVars, filterVars, spliceVars, parseVars, scanVars, initVars>>

\* output := splice(filteredFragments)
SpliceFiltered ==
    /\ area = "document"
    /\ pc = "splice"
    /\ output' = SpliceFragments(filteredFragments)
    /\ pc' = "done"
    /\ UNCHANGED <<area, opts, cfg, filteredFragments, selectedOutputFormats,
                   outputFiles, fs, stdout, prompts, err>>
    /\ UNCHANGED <<combineVars, filterVars, spliceVars, parseVars, scanVars, initVars>>

SpecDocument == InitDocument /\ [][MergeScans \/ FilterMerged \/ SpliceFiltered]_vars

(* Properties of the document *)

DocumentDone == area = "document" /\ pc = "done"

\* body occurs in text
Contains(text, body) ==
    \E k \in 1..(Len(text) - Len(body) + 1) : SubSeq(text, k, k + Len(body) - 1) = body

\* the fragment matches the selected tags (an empty selection selects all)
Selected(fragment) ==
    \/ selectedTags = <<>>
    \/ \E i \in DOMAIN fragment.Tags, j \in DOMAIN selectedTags :
           fragment.Tags[i] = selectedTags[j]

\* the global fragment has a local namesake
HasLocalNamesake(fragment) ==
    \E i \in DOMAIN localFragments : Base(localFragments[i].Path) = Base(fragment.Path)

----------------------------------------------------------------------------
(* ScanFragments *)

\* strings.HasSuffix(s, suffix)
HasSuffix(s, suffix) ==
    /\ Len(s) >= Len(suffix)
    /\ SubSeq(s, Len(s) - Len(suffix) + 1, Len(s)) = suffix

\* the test of the walk function for a markdown file
IsMarkdown(path) ==
    \/ HasSuffix(path, <<".", "m", "d">>)
    \/ HasSuffix(path, <<".", "m", "a", "r", "k", "d", "o", "w", "n">>)

\* os.IsNotExist(err) never true: a missing directory is walked
IsNotExist_Never(stat) == FALSE

\* os.IsNotExist(err) for the error of os.Stat(fragmentsDir)
IsNotExist(stat) == stat = "not exist"

\* what the walk function does with one visited entry: the fragments after
\* the call and the error it returns
walkFn(frs, entry) ==
    IF entry.lstat # "ok"
    THEN [fragments |-> frs, err |-> Error(entry.lstat, entry.path)]
    ELSE IF ~entry.isDir /\ IsMarkdown(entry.path)
    THEN IF entry.parse # "ok"
         THEN [fragments |-> frs,
               err |-> Error("failed to parse fragment", entry.path \o <<entry.parse>>)]
         ELSE [fragments |-> Append(frs, Fragment(entry.path, entry.tagList, entry.content)),
               err |-> Nil]
    ELSE [fragments |-> frs, err |-> Nil]

(* Inputs of the scan *)

\* the path of fragmentsDir
ScanRoot == <<"f">>

\* the names below fragmentsDir, in the lexical order of filepath.Walk:
\* a.md, c.txt, d.md (a directory) and e.markdown
ScanNames ==
    << <<"a", ".", "m", "d">>,
       <<"c", ".", "t", "x", "t">>,
       <<"d", ".", "m", "d">>,
       <<"e", ".", "m", "a", "r", "k", "d", "o", "w", "n">> >>

ScanPath(n) == (ScanRoot \o <<"/">>) \o ScanNames[n]

\* an entry as the walk finds it: lstat is "ok" or the error the walk hands to
\* the walk function, parse is "ok" or the error of ParseFragment
Entry(n, lstat, parse) ==
    [path |-> ScanPath(n), isDir |-> n = 3, lstat |-> lstat, parse |-> parse,
     tagList |-> IF n = 1 THEN <<"a">> ELSE <<>>,
     content |-> <<"X">>, rank |-> n]

ScanEntries ==
    {Entry(n, "ok", "ok") : n \in 1..4}
        \cup {Entry(n, "permission denied", "ok") : n \in 1..4}
        \cup {Entry(n, "ok", "failed to open file") : n \in {1, 4}}

\* the listings of fragmentsDir: entries with distinct names in lexical order
ScanListings ==
    {s \in SeqsUpTo(ScanEntries, Len(ScanNames)) :
        \A i, j \in DOMAIN s : i < j => s[i].rank < s[j].rank}

\* the root as the walk visits it first
RootEntry(stat) ==
    [path |-> ScanRoot, isDir |-> TRUE, lstat |-> stat, parse |-> "ok",
     tagList |-> <<>>, content |-> <<>>, rank |-> 0]

ScanTrees ==
    {[stat |-> "ok", entries |-> s] : s \in ScanListings}
        \cup {[stat |-> st, entries |-> <<>>] : st \in {"not exist", "permission denied"}}

InitScan ==
    /\ area = "scan"
    /\ pc = "stat"
    /\ tree \in ScanTrees
    /\ walked = 0
    /\ IdleCombine
    /\ IdleFilter
    /\ IdleSplice
    /\ IdleParse
    /\ IdleBuild
    /\ IdleInit

\* os.Stat(fragmentsDir) and the early return for a missing directory
Stat ==
    /\ area = "scan"
    /\ pc = "stat"
    /\ pc' = IF IsNotExist(tree.stat) THEN "returned" ELSE "walk"
    /\ UNCHANGED <<area, tree, walked, combineVars, filterVars, spliceVars, parseVars,
                   buildVars, initVars>>

\* filepath.Walk calls the walk function: first for the root, then for the
\* entries in lexical order; an error of the walk function ends the walk and
\* ScanFragments returns the fragments found so far with that error
Walk ==
    /\ area = "scan"
    /\ pc = "walk"
    /\ walked <= Len(tree.entries)
    /\ LET entry == IF walked = 0 THEN RootEntry(tree.stat) ELSE tree.entries[walked]
           r     == walkFn(fragments, entry)
       IN  /\ fragments' = r.fragments
           /\ err' = r.err
           /\ pc' = IF r.err # Nil THEN "returned" ELSE "walk"
    /\ walked' = walked + 1
    /\ UNCHANGED <<area, tree, opts, cfg, filteredFragments, selectedOutputFormats,
                   outputFiles, output, fs, stdout, prompts>>
    /\ UNCHANGED <<combineVars, selectedTags, filtered, refiltered, spliceVars, parseVars,
                   initVars>>

\* the walk is over: return fragments, nil
WalkReturns ==
    /\ area = "scan"
    /\ pc = "walk"
    /\ walked > Len(tree.entries)
    /\ pc' = "returned"
    /\ UNCHANGED <<area, tree, walked, combineVars, filterVars, spliceVars, parseVars,
                   buildVars, initVars>>

SpecScan == InitScan /\ [][Stat \/ Walk \/ WalkReturns]_vars

(* Properties of the scan *)

ScanReturned == area = "scan" /\ pc = "returned"

\* C21: the scan of a directory that does not exist returns no fragment and
\* no error, without walking; merged as the local fragments of a build it
\* leaves the global fragments as they are, in both override modes.
C21_MissingDirectoryIsEmpty ==
    (ScanReturned /\ tree.stat = "not exist") =>
        /\ fragments = <<>>
        /\ err = Nil
        /\ walked = 0
        /\ \A g \in ScanResults(GlobalPaths), flag \in BOOLEAN :
               CombineFragments(g, fragments, flag) = g

\* the scan of a missing directory has returned
C21_Witness ==
    /\ ScanReturned
    /\ tree.stat = "not exist"
    /\ fragments = <<>>
    /\ err = Nil

----------------------------------------------------------------------------
(* GenerateCommandFile *)

\* a path as text: its components joined by the separator
PathText(path) == Join([i \in DOMAIN path |-> <<path[i]>>], <<"/">>)

\* the loop writing "- %s\n" for every selected tag
RECURSIVE TagLines(_)
TagLines(selTags) ==
    IF selTags = <<>> THEN <<>>
    ELSE <<"- ", Head(selTags), "\n">> \o TagLines(Tail(selTags))

\* the loop writing "- %s (tags: %s)\n" for every fragment
RECURSIVE FragmentLines(_)
FragmentLines(frs) ==
    IF frs = <<>> THEN <<>>
    ELSE (((<<"- ">> \o PathText(Head(frs).Path)) \o <<" (tags: ">>)
              \o JoinNames(Head(frs).Tags)) \o <<")\n">>
             \o FragmentLines(Tail(frs))

\* the line of three backquotes that opens and closes the command block
Fence == "[three backquotes]"

\* GenerateCommandFile: the text is given by the pieces written to the builder
GenerateCommandFile(frs, selTags) ==
    (((((<<"# ctx command file for replication\n",
          "# Generated automatically - do not edit manually\n\n",
          "## Selected Tags\n">>
            \o TagLines(selTags))
            \o <<"\n## Fragments Used\n">>)
            \o FragmentLines(frs))
            \o <<"\n## Command\n", Fence, "\nctx build --tags ">>)
            \o Join([i \in DOMAIN selTags |-> <<selTags[i]>>], <<",">>))
            \o <<"\n", Fence, "\n">>

\* the manifest of the build is on disk or on standard output
ManifestEmitted ==
    LET manifest == GenerateCommandFile(filteredFragments, selectedTags)
    IN  \/ \E f \in DOMAIN fs.files : fs.files[f] = manifest
        \/ \E i \in DOMAIN stdout : stdout[i].text = manifest

\* C22: every build that completes successfully has emitted, after writing
\* its destinations, the manifest of the selected tags and the fragments used.
C22_ManifestAfterBuild == Built => ManifestEmitted

----------------------------------------------------------------------------
(* The options of the tag form *)

\* the tags some fragment of the scan declares
ScanTags ==
    {t \in {"a", "b", "y", "z"} :
        \E i \in DOMAIN fragments : \E j \in DOMAIN fragments[i].Tags :
            fragments[i].Tags[j] = t}

\* an interactive build without --tags has come back from determineSelectedTags
InteractiveTagsStep ==
    /\ area = "build"
    /\ fragments # <<>>
    /\ pc \notin {"load", "tags"}
    /\ ~opts.NonInteractive
    /\ opts.Tags = <<>>

\* C25: the tag form is run only by an interactive build without explicit
\* tags, and its options are then exactly the distinct tags the fragments
\* declare, of which there is at least one; when no fragment declares a tag
\* the interactive build without explicit tags fails with "no tags found in
\* fragments" and the form is never run
C25_SelectorOptions ==
    /\ \A i \in DOMAIN prompts :
           prompts[i].form = "selectTags" =>
               /\ ~opts.NonInteractive
               /\ opts.Tags = <<>>
               /\ prompts[i].options # {}
               /\ prompts[i].options = ScanTags
    /\ (InteractiveTagsStep /\ ScanTags # {}) => TagFormRun
    /\ (InteractiveTagsStep /\ ScanTags = {}) =>
           /\ BuildReturned
           /\ err = Error("no tags found in fragments", <<>>)
           /\ prompts = <<>>

\* the form was run over the two tags of two fragments that both declare "a"
C25_Witness ==
    /\ InteractiveTagsStep
    /\ Len(fragments) = 2
    /\ fragments[1].Tags = <<"a">>
    /\ fragments[2].Tags = <<"b", "a">>
    /\ TagFormRun
    /\ prompts[1].options = {"a", "b"}
    /\ selectedTags = <<"b">>

\* the interactive build over an untagged fragment has failed without a form
C25_WitnessNoTags ==
    /\ InteractiveTagsStep
    /\ ScanTags = {}
    /\ err = Error("no tags found in fragments", <<>>)

----------------------------------------------------------------------------
(* The custom output file *)

\* --output-file is given without --stdout and without --output-format
CustomChosen ==
    /\ area = "build"
    /\ ~opts.Stdout
    /\ opts.OutputFormats = <<>>
    /\ opts.OutputFile # <<>>

\* the disk after the document was written to the file named by --output-file
\* and to nothing else
CustomWritten ==
    [files |-> WriteFile(InitialDisk.files, opts.OutputFile, output),
     dirs  |-> MkdirAll(InitialDisk.dirs, Dir(opts.OutputFile))]

\* C26: with --output-file and neither --stdout nor --output-format the
\* resolver returns the one format "custom" bound to the given path without
\* running the format form, whatever the configuration holds; the write step
\* then fails only if the operating system refuses a call, never for an
\* unknown format, and when it succeeds the document is in the file of that
\* path and no other file, the one the configuration names for "custom"
\* included, was created or changed.
C26_CustomFileBypassesConfig ==
    /\ []((FormatsResolved /\ CustomChosen) =>
              /\ ~FormatsFailed
              /\ ~FormatFormRun
              /\ selectedOutputFormats = <<"custom">>
              /\ outputFiles = <<opts.OutputFile>>)
    /\ [][(pc = "output" /\ CustomChosen) =>
              \/ /\ err' = Nil
                 /\ fs' = CustomWritten
              \/ /\ err'.msg = "failed to write output files"
                 /\ err'.arg[1] \in {"failed to create directory", "failed to write file"}
                 /\ fs'.files = InitialDisk.files]_vars

\* the document went to out/x.md although the configuration names CUSTOM.md
\* for the format custom
C26_Witness ==
    /\ CustomChosen
    /\ Built
    /\ "custom" \in DOMAIN cfg.OutputFormats
    /\ fs.files[<<"out", "x.md">>] = output
    /\ <<"CUSTOM.md">> \notin DOMAIN fs.files

\* the document went to out/x.md with an empty configuration
C26_WitnessEmptyConfig ==
    /\ CustomChosen
    /\ Built
    /\ DOMAIN cfg.OutputFormats = {}
    /\ fs = CustomWritten

----------------------------------------------------------------------------
(* A format without file name in the middle of the list *)

\* entry i of the resolved formats has no file name: it is not "stdout", not
\* "custom" with a custom file at its index, and not a configured format
NoDestination(i) ==
    /\ selectedOutputFormats[i] # "stdout"
    /\ ~(selectedOutputFormats[i] = "custom" /\ i <= Len(outputFiles))
    /\ selectedOutputFormats[i] \notin DOMAIN cfg.OutputFormats

\* the entries before i that stand for a file
FileEntriesBefore(i) == {j \in 1..(i - 1) : selectedOutputFormats[j] # "stdout"}

\* the write step returns the unknown-format error
UnknownFormatStep ==
    /\ area = "build"
    /\ pc = "output"
    /\ ~opts.Stdout
    /\ err'.msg = "failed to write output files"
    /\ err'.arg[1] = "unknown output format"

\* C27: when the write step returns the unknown-format error, the error
\* names the first entry of the list that has no file name; the files of all
\* the entries before it that are not "stdout" hold the document, their
\* directories exist and one line was printed for each of them; every other
\* file, the files of the entries after it included, is as it was before.
C27_StopsAtFirstUnknown ==
    [][UnknownFormatStep =>
          \E i \in DOMAIN selectedOutputFormats :
              /\ NoDestination(i)
              /\ \A j \in 1..(i - 1) : ~NoDestination(j)
              /\ err'.arg[2] = selectedOutputFormats[i]
              /\ DOMAIN fs'.files =
                    (DOMAIN fs.files) \cup {Destination(j) : j \in FileEntriesBefore(i)}
              /\ \A f \in DOMAIN fs'.files :
                    fs'.files[f] = IF f \in {Destination(j) : j \in FileEntriesBefore(i)}
                                   THEN output
                                   ELSE fs.files[f]
              /\ fs'.dirs = fs.dirs \cup
                    UNION {MkdirAll({}, Dir(Destination(j))) : j \in FileEntriesBefore(i)}
              /\ Len(stdout') = Len(stdout) + Cardinality(FileEntriesBefore(i))]_vars

\* the build failed on the third of four formats: docs/GEMINI.md was written
\* for the first, the second was stdout, and AGENTS.md of the fourth is as it
\* was
C27_Witness ==
    /\ BuildReturned
    /\ selectedOutputFormats = <<"gemini", "stdout", "nope", "opencode">>
    /\ err = Error("failed to write output files", <<"unknown output format", "nope">>)
    /\ output # <<>>
    /\ fs.files[<<"docs", "GEMINI.md">>] = output
    /\ fs.files[<<"AGENTS.md">>] = <<"o", "l", "d">>

----------------------------------------------------------------------------
(* The order of the configured formats *)

\* a non-interactive build without --stdout, --output-format and --output-file
ConfiguredBuild ==
    /\ area = "build"
    /\ opts.NonInteractive
    /\ ~opts.Stdout
    /\ opts.OutputFormats = <<>>
    /\ opts.OutputFile = <<>>

\* the file names of the configuration
ConfiguredFiles == {cfg.OutputFormats[f] : f \in DOMAIN cfg.OutputFormats}

\* the disk with the document in every file the configuration names, given
\* without reference to the order of the formats
ConfiguredWritten ==
    [files |-> [f \in (DOMAIN InitialDisk.files) \cup ConfiguredFiles |->
                   IF f \in ConfiguredFiles THEN output ELSE InitialDisk.files[f]],
     dirs  |-> InitialDisk.dirs \cup UNION {MkdirAll({}, Dir(f)) : f \in ConfiguredFiles}]

\* C28: a non-interactive build without output flags resolves the formats to
\* the keys of the configuration in some order, and when it succeeds the disk
\* is the same for every order: each file the configuration names holds the
\* document, the directories of these files exist, and no other file was
\* created or changed.
C28_OrderIndependentDisk ==
    /\ (ConfiguredBuild /\ FormatsResolved /\ ~FormatsFailed) =>
           \E keys \in Orderings(DOMAIN cfg.OutputFormats) : selectedOutputFormats = keys
    /\ (ConfiguredBuild /\ Built) => fs = ConfiguredWritten

\* the build has written both files of the configuration, gemini first
C28_Witness ==
    /\ ConfiguredBuild
    /\ Built
    /\ selectedOutputFormats = <<"gemini", "opencode">>
    /\ fs.files[<<"AGENTS.md">>] = output
    /\ fs.files[<<"docs", "GEMINI.md">>] = output

\* the build has written both files of the configuration, opencode first
C28_WitnessOtherOrder ==
    /\ ConfiguredBuild
    /\ Built
    /\ selectedOutputFormats = <<"opencode", "gemini">>
    /\ fs = ConfiguredWritten

----------------------------------------------------------------------------
(* More properties of the parser *)

\* C23: when the first line of a file is not a boundary marker, no later
\* marker opens a header: the returned tags are empty and every line of the
\* file, markers and ctx-tags lines included, is a content line.
C23_HeaderOnlyAtTop ==
    LET lines == FileLines(fileText)
    IN  (ParseDone /\ lines # <<>> /\ 1 \notin MarkerLines(lines)) =>
            /\ parsed.fragment.Tags = <<>>
            /\ contentLines = lines
            /\ parsed.fragment.Content = Unlines(lines, 1, Len(lines))

\* C24: once the header has been closed the parser is never inside a header
\* again, and every line read from then on, boundary markers and ctx-tags
\* lines included, is appended to the content as it is and leaves the tags
\* unchanged.
C24_MarkerInertAfterClose ==
    /\ [](frontmatterProcessed => ~inFrontmatter)
    /\ [][(area = "parse" /\ frontmatterProcessed /\ pc' = "scan") =>
              /\ frontmatterProcessed'
              /\ tags' = tags
              /\ contentLines' = Append(contentLines, ScanLinesToken(rest))]_vars

\* after an empty header, a marker with blanks around it and a ctx-tags line
\* are the content, and there are no tags
C24_Witness ==
    /\ ParseDone
    /\ frontmatterProcessed
    /\ contentLines = << <<" ", "-", "-", "-", "\t">>,
                         <<"c", "t", "x", "-", "t", "a", "g", "s", ":", " ", "a", ",", " ", "b">> >>
    /\ parsed.fragment.Tags = <<>>


\* the tags of the sample fragment
SampleTags ==
    << <<"h", "e", "l", "l", "o">>, <<"w", "o", "r", "l", "d">>,
       <<"s", "a", "m", "p", "l", "e">> >>

\* C29: ParseFragment on the sample fragment of init returns the tags hello,
\* world, sample in this order and a content without the ctx-tags line.
C29_SampleRoundTrips ==
    (ParseDone /\ fileText = sampleContent) =>
        /\ parsed.fragment.Tags = SampleTags
        /\ \A k \in DOMAIN contentLines : contentLines[k] # SampleLines[1]

\* what ParseFragment returns for the sample fragment: no tag, and the whole
\* text with the ctx-tags line as content
C29_SampleParsedAsContent ==
    (ParseDone /\ fileText = sampleContent) =>
        /\ parsed.fragment.Tags = <<>>
        /\ contentLines = SampleLines
        /\ parsed.fragment.Content = Join(SampleLines, <<"\n">>)


----------------------------------------------------------------------------
(* RunInit *)

\* config.GetConfigDir() when XDG_CONFIG_HOME or the home directory is known
ConfigDir == <<"/", "home", ".config", ".ctx">>

\* the working directory
Cwd == <<"/", "work">>

\* filepath.Abs of a path given by its components
Abs(path) == IF path[1] = "/" THEN path ELSE Cwd \o path

\* configPath of RunInit: --config, or config.json in the configuration
\* directory
ConfigPath(o) ==
    IF o.ConfigFile # <<>> THEN o.ConfigFile ELSE ConfigDir \o <<"config.json">>

\* config.DefaultConfig()
DefaultConfig ==
    [DefaultTags   |-> <<>>,
     OutputFormats |-> [f \in {"opencode", "gemini"} |->
                           IF f = "opencode" THEN <<"AGENTS.md">> ELSE <<"GEMINI.md">>],
     FragmentsDir  |-> <<>>]

\* the format names in the order json.MarshalIndent writes the keys of a map
SortedFormats == <<"claude", "gemini", "opencode">>

\* the members of outputFormats from the k-th sorted format name on
RECURSIVE MarshalFormats(_, _)
MarshalFormats(formats, k) ==
    IF k > Len(SortedFormats) THEN <<>>
    ELSE (IF SortedFormats[k] \in DOMAIN formats
          THEN <<SortedFormats[k], ":">> \o formats[SortedFormats[k]]
          ELSE <<>>) \o MarshalFormats(formats, k + 1)

\* json.MarshalIndent(config): the tokens of the JSON text; fragmentsDir and
\* customSettings are left out when empty
MarshalIndent(c) ==
    <<"{", "defaultTags", ":", "[">> \o c.DefaultTags \o <<"]",
      "outputFormats", ":", "{">> \o MarshalFormats(c.OutputFormats, 1) \o <<"}">>
        \o (IF c.FragmentsDir # <<>>
            THEN <<"fragmentsDir", ":">> \o c.FragmentsDir
            ELSE <<>>)
        \o <<"}">>

\* the overwrite step going on to the questionnaire whatever the answer is
confirmOverwrite_IgnoreAnswer(statErr, outcome) ==
    IF statErr # "nil"
    THEN [proceed |-> TRUE, err |-> Nil, asked |-> <<>>, printed |-> <<>>]
    ELSE IF outcome.err # "nil"
    THEN [proceed |-> FALSE,
          err |-> Wrap("failed to get overwrite confirmation", Error(outcome.err, <<>>)),
          asked |-> <<Prompt("confirmOverwrite", outcome, "none")>>, printed |-> <<>>]
    ELSE [proceed |-> TRUE, err |-> Nil,
          asked |-> <<Prompt("confirmOverwrite", outcome,
                             IF outcome.value THEN "yes" ELSE "no")>>,
          printed |-> <<>>]

\* RunInit, lines 37-57: the confirmation that is asked for when os.Stat of
\* the configuration file returns no error
confirmOverwrite(statErr, outcome) ==
    IF statErr # "nil"
    THEN [proceed |-> TRUE, err |-> Nil, asked |-> <<>>, printed |-> <<>>]
    ELSE IF outcome.err # "nil"
    THEN [proceed |-> FALSE,
          err |-> Wrap("failed to get overwrite confirmation", Error(outcome.err, <<>>)),
          asked |-> <<Prompt("confirmOverwrite", outcome, "none")>>, printed |-> <<>>]
    ELSE IF ~outcome.value
    THEN [proceed |-> FALSE, err |-> Nil,
          asked |-> <<Prompt("confirmOverwrite", outcome, "no")>>,
          printed |-> <<Printed("Println", <<"Init cancelled.">>)>>]
    ELSE [proceed |-> TRUE, err |-> Nil,
          asked |-> <<Prompt("confirmOverwrite", outcome, "yes")>>, printed |-> <<>>]

\* the loop of promptForCustomFormats from entry k of what the user enters;
\* failAt numbers the form whose Run returns an error, 0 for none
RECURSIVE customFormatsLoop(_, _, _, _, _)
customFormatsLoop(k, entered, failAt, customFormats, asked) ==
    LET ok     == [err |-> "nil"]
        failed == [err |-> "form failed"]
    IN  IF failAt = 2 * k - 1
        THEN [formats |-> customFormats, err |-> Error("form failed", <<>>),
              asked |-> Append(asked, Prompt("customFormat", failed, "none"))]
        ELSE LET added  == [f \in (DOMAIN customFormats) \cup {entered[k].name} |->
                               IF f = entered[k].name THEN entered[k].file
                               ELSE customFormats[f]]
                 asked1 == Append(asked, Prompt("customFormat", ok, "none"))
             IN  IF failAt = 2 * k
                 THEN [formats |-> added, err |-> Error("form failed", <<>>),
                       asked |-> Append(asked1, Prompt("addMore", failed, "none"))]
                 ELSE IF k < Len(entered)
                 THEN customFormatsLoop(k + 1, entered, failAt, added,
                                        Append(asked1, Prompt("addMore", ok, "yes")))
                 ELSE [formats |-> added, err |-> Nil,
                       asked |-> Append(asked1, Prompt("addMore", ok, "no"))]

promptForCustomFormats(entered, failAt) ==
    customFormatsLoop(1, entered, failAt, [f \in {} |-> <<>>], <<>>)

\* generateConfig; absOk tells whether filepath.Abs succeeds
generateConfig(a, absOk, entered, failAt) ==
    IF a.FragmentsDir # <<>> /\ ~absOk
    THEN [cfg |-> EmptyConfig, asked |-> <<>>,
          err |-> Wrap("failed to convert fragments directory to absolute path",
                       Error("io", <<>>))]
    ELSE LET c1 == IF a.FragmentsDir # <<>>
                   THEN [DefaultConfig EXCEPT !.FragmentsDir = Abs(a.FragmentsDir)]
                   ELSE DefaultConfig
         IN  IF ~a.AddOutputFormats
             THEN [cfg |-> c1, asked |-> <<>>, err |-> Nil]
             ELSE LET r == promptForCustomFormats(entered, failAt)
                  IN  IF r.err # Nil
                      THEN [cfg |-> EmptyConfig, asked |-> r.asked,
                            err |-> Wrap("failed to get custom formats", r.err)]
                      ELSE [cfg |-> [c1 EXCEPT !.OutputFormats =
                                        [f \in (DOMAIN c1.OutputFormats) \cup (DOMAIN r.formats) |->
                                            IF f \in DOMAIN r.formats THEN r.formats[f]
                                            ELSE c1.OutputFormats[f]]],
                            asked |-> r.asked, err |-> Nil]

\* config.SaveConfig(cfg, configPath); fail names the call the operating
\* system refuses
SaveConfig(c, configPath, disk, fail) ==
    LET made == [disk EXCEPT !.dirs = MkdirAll(disk.dirs, Dir(configPath))]
    IN  IF fail = "MkdirAll"
        THEN [fs |-> disk, err |-> Wrap("failed to create config directory", Error("io", <<>>))]
        ELSE IF fail = "WriteFile"
        THEN [fs |-> made, err |-> Wrap("failed to write config file", Error("io", <<>>))]
        ELSE [fs |-> [made EXCEPT !.files = WriteFile(made.files, configPath, MarshalIndent(c))],
              err |-> Nil]

\* config.GetFragmentsDir(cfg) when the configuration directory is known
GetFragmentsDir(c) ==
    IF c.FragmentsDir # <<>> THEN c.FragmentsDir ELSE ConfigDir \o <<"fragments">>

\* createSampleFragment(fragmentsDir)
createSampleFragment(fragmentsDir, disk, fail) ==
    LET samplePath == fragmentsDir \o <<"hello-world.md">>
    IN  IF fail
        THEN [fs |-> disk, printed |-> <<>>,
              err |-> Wrap("failed to write sample fragment", Error("io", <<>>))]
        ELSE [fs |-> [disk EXCEPT !.files = WriteFile(disk.files, samplePath, sampleContent)],
              printed |-> <<Printed("Printf", <<"Sample fragment created: ">> \o samplePath)>>,
              err |-> Nil]

\* the last line RunInit prints
SetupComplete ==
    Printed("Println",
            <<"\nSetup complete! You can now run 'ctx build' to start using the tool.">>)

(* Inputs of init *)

\* --config
InitConfigFiles == {<<>>, <<"my", "config.json">>}

\* the configuration file of an earlier run
ExistingConfig == <<"{", "defaultTags", ":", "[", "existing", "]", "}">>

\* the disk with an earlier configuration file at path
DiskWithConfig(path) ==
    [files |-> [f \in {path} |-> ExistingConfig],
     dirs  |-> MkdirAll({}, Dir(path))]

\* how form.Run() of the questionnaire can end
QuestionnaireOutcomes ==
    {[err |-> "nil", value |-> a] :
        a \in [AddOutputFormats : BOOLEAN,
               FragmentsDir : {<<>>, <<"frags">>, <<"/", "data", "frags">>},
               CreateSample : BOOLEAN]}
      \cup {[err |-> "user aborted", value |-> NoAnswers]}

\* what the user enters in promptForCustomFormats: format names, none twice,
\* each with a file name
CustomEntries ==
    { << [name |-> "claude", file |-> <<"CLAUDE.md">>] >>,
      << [name |-> "gemini", file |-> <<"docs", "G.md">>],
         [name |-> "claude", file |-> <<"CLAUDE.md">>] >> }

InitInit ==
    /\ area = "init"
    /\ pc = "start"
    /\ opts \in [ConfigFile : InitConfigFiles]
    /\ fs \in {EmptyDisk, DiskWithConfig(ConfigPath(opts))}
    /\ cfg = EmptyConfig
    /\ answers = NoAnswers
    /\ stdout = <<>>
    /\ prompts = <<>>
    /\ err = Nil
    /\ filteredFragments = <<>>
    /\ selectedOutputFormats = <<>>
    /\ outputFiles = <<>>
    /\ output = <<>>
    /\ IdleCombine
    /\ IdleFilter
    /\ IdleSplice
    /\ IdleParse
    /\ IdleScan

\* RunInit returns e
InitReturns(e) == pc' = "returned" /\ err' = e

\* RunInit, lines 27-35: the path of the configuration file
ResolveConfigPath ==
    /\ area = "init"
    /\ pc = "start"
    /\ \E known \in BOOLEAN :
           IF opts.ConfigFile = <<>> /\ ~known
           THEN InitReturns(Wrap("failed to get config directory",
                                 Error("failed to get user home directory", <<>>)))
           ELSE pc' = "stat" /\ UNCHANGED err
    /\ UNCHANGED <<area, opts, cfg, filteredFragments, selectedOutputFormats,
                   outputFiles, output, fs, stdout, prompts>>
    /\ UNCHANGED <<combineVars, filterVars, spliceVars, parseVars, scanVars, initVars>>

\* what os.Stat(path) can return on the disk
StatOutcomes(disk, path) ==
    IF path \in DOMAIN disk.files THEN {"nil", "permission denied"} ELSE {"not exist"}

\* RunInit, lines 37-57: os.Stat of the configuration file and the
\* confirmation
ConfirmOverwrite ==
    /\ area = "init"
    /\ pc = "stat"
    /\ \E statErr \in StatOutcomes(fs, ConfigPath(opts)), outcome \in ConfirmOutcomes :
           LET r == confirmOverwrite(statErr, outcome)
           IN  /\ prompts' = prompts \o r.asked
               /\ stdout' = stdout \o r.printed
               /\ IF r.proceed
                  THEN pc' = "questionnaire" /\ UNCHANGED err
                  ELSE InitReturns(r.err)
    /\ UNCHANGED <<area, opts, cfg, filteredFragments, selectedOutputFormats,
                   outputFiles, output, fs>>
    /\ UNCHANGED <<combineVars, filterVars, spliceVars, parseVars, scanVars, initVars>>

\* answers, err := runQuestionnaire()
RunQuestionnaire ==
    /\ area = "init"
    /\ pc = "questionnaire"
    /\ \E outcome \in QuestionnaireOutcomes :
           /\ prompts' = Append(prompts, Prompt("questionnaire", outcome, "none"))
           /\ IF outcome.err # "nil"
              THEN /\ InitReturns(Wrap("questionnaire failed", Error(outcome.err, <<>>)))
                   /\ UNCHANGED answers
              ELSE /\ answers' = outcome.value
                   /\ pc' = "generate"
                   /\ UNCHANGED err
    /\ UNCHANGED <<area, opts, cfg, filteredFragments, selectedOutputFormats,
                   outputFiles, output, fs, stdout>>
    /\ UNCHANGED <<combineVars, filterVars, spliceVars, parseVars, scanVars>>

\* cfg, err := generateConfig(answers)
GenerateConfig ==
    /\ area = "init"
    /\ pc = "generate"
    /\ \E absOk \in BOOLEAN, entered \in CustomEntries, failAt \in 0..4 :
           /\ failAt <= 2 * Len(entered)
           /\ LET r == generateConfig(answers, absOk, entered, failAt)
              IN  /\ prompts' = prompts \o r.asked
                  /\ IF r.err # Nil
                     THEN InitReturns(Wrap("failed to generate config", r.err))
                          /\ UNCHANGED cfg
                     ELSE cfg' = r.cfg /\ pc' = "save" /\ UNCHANGED err
    /\ UNCHANGED <<area, opts, filteredFragments, selectedOutputFormats,
                   outputFiles, output, fs, stdout>>
    /\ UNCHANGED <<combineVars, filterVars, spliceVars, parseVars, scanVars, initVars>>

\* config.SaveConfig(cfg, configPath) and the line printed after it
SaveConfiguration ==
    /\ area = "init"
    /\ pc = "save"
    /\ \E fail \in {"none", "MkdirAll", "WriteFile"} :
           LET r == SaveConfig(cfg, ConfigPath(opts), fs, fail)
           IN  /\ fs' = r.fs
               /\ IF r.err # Nil
                  THEN InitReturns(Wrap("failed to save config", r.err))
                       /\ UNCHANGED stdout
                  ELSE /\ stdout' = Append(stdout,
                              Printed("Printf", <<"Configuration saved to: ">> \o ConfigPath(opts)))
                       /\ pc' = "mkdir"
                       /\ UNCHANGED err
    /\ UNCHANGED <<area, opts, cfg, filteredFragments, selectedOutputFormats,
                   outputFiles, output, prompts>>
    /\ UNCHANGED <<combineVars, filterVars, spliceVars, parseVars, scanVars, initVars>>

\* RunInit, lines 78-88: the fragments directory; the configuration
\* directory is known when RunInit has asked for it at its start
CreateFragmentsDir ==
    /\ area = "init"
    /\ pc = "mkdir"
    /\ \E known \in BOOLEAN, mkdirOk \in BOOLEAN :
           IF cfg.FragmentsDir = <<>> /\ opts.ConfigFile # <<>> /\ ~known
           THEN /\ InitReturns(Wrap("failed to get fragments directory",
                                    Error("failed to get user home directory", <<>>)))
                /\ UNCHANGED <<fs, stdout>>
           ELSE IF ~mkdirOk
           THEN /\ InitReturns(Wrap("failed to create fragments directory", Error("io", <<>>)))
                /\ UNCHANGED <<fs, stdout>>
           ELSE /\ fs' = [fs EXCEPT !.dirs = MkdirAll(fs.dirs, GetFragmentsDir(cfg))]
                /\ stdout' = Append(stdout,
                       Printed("Printf", <<"Fragments directory created: ">> \o GetFragmentsDir(cfg)))
                /\ pc' = "sample"
                /\ UNCHANGED err
    /\ UNCHANGED <<area, opts, cfg, filteredFragments, selectedOutputFormats,
                   outputFiles, output, prompts>>
    /\ UNCHANGED <<combineVars, filterVars, spliceVars, parseVars, scanVars, initVars>>

\* RunInit, lines 90-99: the sample fragment if it was asked for, and the
\* last line
CreateSample ==
    /\ area = "init"
    /\ pc = "sample"
    /\ \E fail \in BOOLEAN :
           IF ~answers.CreateSample
           THEN /\ stdout' = Append(stdout, SetupComplete)
                /\ InitReturns(Nil)
                /\ UNCHANGED fs
           ELSE LET r == createSampleFragment(GetFragmentsDir(cfg), fs, fail)
                IN  /\ fs' = r.fs
                    /\ IF r.err # Nil
                       THEN /\ InitReturns(Wrap("failed to create sample fragment", r.err))
                            /\ stdout' = stdout \o r.printed
                       ELSE /\ stdout' = Append(stdout \o r.printed, SetupComplete)
                            /\ InitReturns(Nil)
    /\ UNCHANGED <<area, opts, cfg, filteredFragments, selectedOutputFormats,
                   outputFiles, output, prompts>>
    /\ UNCHANGED <<combineVars, filterVars, spliceVars, parseVars, scanVars, initVars>>

RunInit ==
    \/ ResolveConfigPath
    \/ ConfirmOverwrite
    \/ RunQuestionnaire
    \/ GenerateConfig
    \/ SaveConfiguration
    \/ CreateFragmentsDir
    \/ CreateSample

SpecInit == InitInit /\ [][RunInit]_vars

(* Properties of init *)

InitReturned == area = "init" /\ pc = "returned"

\* the overwrite confirmation was answered with no
OverwriteDeclined ==
    /\ area = "init"
    /\ \E i \in DOMAIN prompts :
           prompts[i].form = "confirmOverwrite" /\ prompts[i].answer = "no"

\* C30: when os.Stat finds the configuration file and the overwrite
\* confirmation is answered with no, RunInit returns nil in that step; the
\* disk is then as it was before init, with the earlier configuration file as
\* its only file and no fragments directory, the confirmation is the only
\* form that was run, no answers and no configuration were produced, and
\* "Init cancelled." is all that was printed.
C30_DeclinedOverwriteChangesNothing ==
    /\ [][(OverwriteDeclined' /\ ~OverwriteDeclined) =>
              /\ pc = "stat"
              /\ pc' = "returned"
              /\ err' = Nil
              /\ fs' = fs]_vars
    /\ [](OverwriteDeclined =>
              /\ InitReturned
              /\ err = Nil
              /\ fs = DiskWithConfig(ConfigPath(opts))
              /\ fs.files[ConfigPath(opts)] = ExistingConfig
              /\ Len(prompts) = 1
              /\ answers = NoAnswers
              /\ cfg = EmptyConfig
              /\ stdout = <<Printed("Println", <<"Init cancelled.">>)>>)

\* init was declined over the configuration file in the configuration
\* directory
C30_Witness ==
    /\ OverwriteDeclined
    /\ InitReturned
    /\ opts.ConfigFile = <<>>
    /\ fs.files[ConfigDir \o <<"config.json">>] = ExistingConfig

\* init has overwritten the configuration file and written the sample
InitCompleted ==
    /\ InitReturned
    /\ err = Nil
    /\ ~OverwriteDeclined
    /\ answers.CreateSample
    /\ fs.files[ConfigPath(opts)] = MarshalIndent(cfg)
    /\ fs.files[GetFragmentsDir(cfg) \o <<"hello-world.md">>] = sampleContent

====
